---- MODULE Spec2Model ----
(***************************************************************************)
(* Audio-driven viseme detection (talkinghead/modules): the hop-level      *)
(* state machine of Processor, VadGate, Classifier, RingBuffer and the     *)
(* HeadAudio node that talks to the processor over a message port.         *)
(*                                                                         *)
(* Number representation.  The source computes in floating point; the      *)
(* model keeps every quantity an exact integer:                            *)
(*   - log-energies and the gate thresholds are held times 10, i.e. in dB  *)
(*     (activeLE = vadGateActiveDb / 10 in the source);                    *)
(*   - the gate's frame counts activeFrames / inactiveFrames are held in   *)
(*     sixteenths of a hop (FrameScale), because the source computes       *)
(*     ms * (16000 / 256) / 1000 = ms / 16;                                *)
(*   - silSensitivity is held in tenths (1.2 is 12);                       *)
(*   - a Mahalanobis distance is an exact fraction [n, d].                 *)
(* The viseme value null is the integer Null.                              *)
(***************************************************************************)
EXTENDS Integers, Sequences, FiniteSets, TLC

\* ------------------------------------------------------------ parameters.mjs
AUDIO_SAMPLE_RATE == 16000
AUDIO_DOWNSAMPLE_PHASE_N == 64
MFCC_SAMPLES_HOP == 256
MFCC_COEFF_N == 12
MFCC_COEFF_N_WITH_DELTAS == MFCC_COEFF_N
MODEL_VISEMES_N == 15
MODEL_VISEME_SIL == 14

\* Sixteenths of a hop per millisecond: 1000 * MFCC_SAMPLES_HOP / AUDIO_SAMPLE_RATE.
FrameScale == (1000 * MFCC_SAMPLES_HOP) \div AUDIO_SAMPLE_RATE

\* The value null of a viseme, and the absent "group" property of a prototype.
Null == 0 - 1
NoGroup == 0 - 1

\* ------------------------------------------------------------------ bounds
\* The counters active / inactive of the gate grow without limit in the source
\* and are only tested for zero; the model stops counting at MaxCount.
MaxCount == 2
\* Frame and hop size of the processor (options.samplesN / options.samplesHop).
SamplesN == 1
SamplesHop == 1
\* Messages still queued at the processor when the node posts again.
MaxQueued == 0
\* Longest prototype list the model lets an import build.
MaxPrototypes == 4

Max(a, b) == IF a >= b THEN a ELSE b
Min(a, b) == IF a <= b THEN a ELSE b

\* Math.round(a / b) for a >= 0, b > 0.
Round(a, b) == (2 * a + b) \div (2 * b)

RECURSIVE Sum(_, _)
Sum(f, n) == IF n = 0 THEN 0 ELSE f[n] + Sum(f, n - 1)

\* ------------------------------------------------------------ ringbuffer.mjs
\* buf is 1-based here: slot i of the source is buf[i + 1].
RingBuffer(capacity, fill, full) ==
  [ buf |-> [i \in 1..capacity |-> fill],
    capacity |-> capacity,
    head |-> 0,
    tail |-> 0,
    count |-> IF full THEN capacity ELSE 0 ]

Ring_add(r, item) ==
  [ r EXCEPT !.buf[r.tail + 1] = item,
             !.tail = (r.tail + 1) % r.capacity,
             !.count = IF r.count < r.capacity THEN r.count + 1 ELSE r.count,
             !.head = IF r.count < r.capacity THEN r.head
                      ELSE (r.head + 1) % r.capacity ]

\* allocate(): the item at the tail, handed out for writing, and the buffer
\* afterwards.
Ring_allocate(r) ==
  [ item |-> r.buf[r.tail + 1],
    ring |-> [ r EXCEPT !.tail = (r.tail + 1) % r.capacity,
                        !.count = IF r.count < r.capacity THEN r.count + 1 ELSE r.count,
                        !.head = IF r.count < r.capacity THEN r.head
                                 ELSE (r.head + 1) % r.capacity ] ]

Ring_isFull(r) == r.count = r.capacity

\* hop = null of getLatest.
NoHop == 0 - 1

\* mutation of Ring_getLatest: the copy starts at the oldest item.
Ring_getLatestOldest(r, n, hop) ==
  IF n > r.count
  THEN [ out |-> <<>>, ok |-> FALSE, ring |-> r ]
  ELSE LET h == r.head
           upd == hop >= 0 /\ hop <= n
       IN [ out |-> [i \in 1..n |-> r.buf[((h + i - 1) % r.capacity) + 1]],
            ok |-> TRUE,
            ring |-> [ r EXCEPT !.head = IF upd THEN (h + hop) % r.capacity ELSE h,
                                !.count = IF upd THEN n - hop ELSE r.count ] ]

\* mutation of Ring_getLatest: the hop is applied before the length is tested.
Ring_getLatestHopFirst(r, n, hop) ==
  IF n > r.count
  THEN [ out |-> <<>>, ok |-> FALSE,
         ring |-> IF hop >= 0 /\ hop <= n
                  THEN [ r EXCEPT !.head = (r.head + hop) % r.capacity ]
                  ELSE r ]
  ELSE LET h == (r.head + (r.count - n)) % r.capacity
           upd == hop >= 0 /\ hop <= n
       IN [ out |-> [i \in 1..n |-> r.buf[((h + i - 1) % r.capacity) + 1]],
            ok |-> TRUE,
            ring |-> [ r EXCEPT !.head = IF upd THEN (h + hop) % r.capacity ELSE h,
                                !.count = IF upd THEN n - hop ELSE r.count ] ]

\* getLatest(out, hop) with out.length = n and a hop given: the items copied
\* (null when n exceeds count) and the buffer afterwards.
Ring_getLatest(r, n, hop) ==
  IF n > r.count
  THEN [ out |-> <<>>, ok |-> FALSE, ring |-> r ]
  ELSE LET h == (r.head + (r.count - n)) % r.capacity
           upd == hop >= 0 /\ hop <= n
       IN [ out |-> [i \in 1..n |-> r.buf[((h + i - 1) % r.capacity) + 1]],
            ok |-> TRUE,
            ring |-> [ r EXCEPT !.head = IF upd THEN (h + hop) % r.capacity ELSE h,
                                !.count = IF upd THEN n - hop ELSE r.count ] ]

\* mutation of Ring_clear: the tail is left where it was.
Ring_clearCountOnly(r, cnt) ==
  [ r EXCEPT !.count = cnt ]

Ring_clear(r, cnt) ==
  [ r EXCEPT !.count = cnt, !.tail = (r.head + cnt) % r.capacity ]

\* --------------------------------------------------------------- vadgate.mjs
VadGate_new(o) ==
  [ activeLE |-> o.vadGateActiveDb,
    activeFrames |-> FrameScale * Max(1, Round(o.vadGateActiveMs, FrameScale)),
    inactiveLE |-> o.vadGateInactiveDb,
    inactiveFrames |-> FrameScale * Max(1, Round(o.vadGateInactiveMs, FrameScale)),
    active |-> 0,
    inactive |-> 1,
    preActive |-> 0,
    preInactive |-> 0 ]

VadGate_update(g, name, value) ==
  CASE name = "vadGateActiveDb" -> [ g EXCEPT !.activeLE = value ]
    [] name = "vadGateActiveMs" -> [ g EXCEPT !.activeFrames = value ]
    [] name = "vadGateInactiveDb" -> [ g EXCEPT !.inactiveLE = value ]
    [] name = "vadGateInactiveMs" -> [ g EXCEPT !.inactiveFrames = value ]
    [] OTHER -> g

\* mutation of VadGate_process: a non-qualifying hop resets the debounce
\* counter.
VadGate_processReset(g, le) ==
  IF g.active # 0
  THEN LET g1 == [ g EXCEPT !.active = Min(g.active + 1, MaxCount) ]
       IN IF le < g1.inactiveLE
          THEN LET g2 == [ g1 EXCEPT !.preInactive = g1.preInactive + 1 ]
               IN IF FrameScale * g2.preInactive >= g2.inactiveFrames
                  THEN [ g2 EXCEPT !.active = 0, !.inactive = 1, !.preActive = 0 ]
                  ELSE g2
          ELSE [ g1 EXCEPT !.preInactive = 0 ]
  ELSE LET g1 == [ g EXCEPT !.inactive = Min(g.inactive + 1, MaxCount) ]
       IN IF le > g1.activeLE
          THEN LET g2 == [ g1 EXCEPT !.preActive = g1.preActive + 1 ]
               IN IF FrameScale * g2.preActive >= g2.activeFrames
                  THEN [ g2 EXCEPT !.active = 1, !.inactive = 0, !.preInactive = 0 ]
                  ELSE g2
          ELSE [ g1 EXCEPT !.preActive = 0 ]

\* mutation of VadGate_process: the gate turns active one hop late (preActive
\* must exceed activeFrames).
VadGate_processLate(g, le) ==
  IF g.active # 0
  THEN LET g1 == [ g EXCEPT !.active = Min(g.active + 1, MaxCount) ]
       IN IF le < g1.inactiveLE
          THEN LET g2 == [ g1 EXCEPT !.preInactive = g1.preInactive + 1 ]
               IN IF FrameScale * g2.preInactive >= g2.inactiveFrames
                  THEN [ g2 EXCEPT !.active = 0, !.inactive = 1, !.preActive = 0 ]
                  ELSE g2
          ELSE IF g1.preInactive > 0
               THEN [ g1 EXCEPT !.preInactive = g1.preInactive - 1 ]
               ELSE g1
  ELSE LET g1 == [ g EXCEPT !.inactive = Min(g.inactive + 1, MaxCount) ]
       IN IF le > g1.activeLE
          THEN LET g2 == [ g1 EXCEPT !.preActive = g1.preActive + 1 ]
               IN IF FrameScale * g2.preActive > g2.activeFrames
                  THEN [ g2 EXCEPT !.active = 1, !.inactive = 0, !.preInactive = 0 ]
                  ELSE g2
          ELSE IF g1.preActive > 0
               THEN [ g1 EXCEPT !.preActive = g1.preActive - 1 ]
               ELSE g1

VadGate_process(g, le) ==
  IF g.active # 0
  THEN LET g1 == [ g EXCEPT !.active = Min(g.active + 1, MaxCount) ]
       IN IF le < g1.inactiveLE
          THEN LET g2 == [ g1 EXCEPT !.preInactive = g1.preInactive + 1 ]
               IN IF FrameScale * g2.preInactive >= g2.inactiveFrames
                  THEN [ g2 EXCEPT !.active = 0, !.inactive = 1, !.preActive = 0 ]
                  ELSE g2
          ELSE IF g1.preInactive > 0
               THEN [ g1 EXCEPT !.preInactive = g1.preInactive - 1 ]
               ELSE g1
  ELSE LET g1 == [ g EXCEPT !.inactive = Min(g.inactive + 1, MaxCount) ]
       IN IF le > g1.activeLE
          THEN LET g2 == [ g1 EXCEPT !.preActive = g1.preActive + 1 ]
               IN IF FrameScale * g2.preActive >= g2.activeFrames
                  THEN [ g2 EXCEPT !.active = 1, !.inactive = 0, !.preInactive = 0 ]
                  ELSE g2
          ELSE IF g1.preActive > 0
               THEN [ g1 EXCEPT !.preActive = g1.preActive - 1 ]
               ELSE g1

\* ------------------------------------------------------------ classifier.mjs
\* Capacity of the prediction history ring.
RingPredictionsN == 6

\* A feature vector with the given first two coefficients, the others 0.
Vec(a, b) ==
  [i \in 1..MFCC_COEFF_N_WITH_DELTAS |-> IF i = 1 THEN a ELSE IF i = 2 THEN b ELSE 0]

\* _buildSigmaInvLowerLookup: the packed index of entry (i, j), all 0-based.
IndexSigmaInvLower(i, j) ==
  LET a == Max(i, j)
      b == Min(i, j)
  IN (a * (a + 1)) \div 2 + b

SigmaInvLowerLen == (MFCC_COEFF_N_WITH_DELTAS * (MFCC_COEFF_N_WITH_DELTAS + 1)) \div 2

\* A packed inverse covariance: w on the diagonal, x between coefficients 0 and 1.
SigmaInvLower(w, x) ==
  [k \in 1..SigmaInvLowerLen |->
     IF \E i \in 0..(MFCC_COEFF_N_WITH_DELTAS - 1) : k - 1 = IndexSigmaInvLower(i, i)
     THEN w
     ELSE IF k - 1 = IndexSigmaInvLower(1, 0) THEN x ELSE 0]

Prototype(phoneme, group, viseme, mu, sigmaInvLower) ==
  [ phoneme |-> phoneme, group |-> group, viseme |-> viseme,
    mu |-> mu, sigmaInvLower |-> sigmaInvLower ]

\* Fractions n / d with d >= 0; Infinity is 1 / 0.
Infinity == [n |-> 1, d |-> 0]
Frac(n, d) == [n |-> n, d |-> d]
FracLeq(x, y) == x.n * y.d <= y.n * x.d
FracEq(x, y) == x.n * y.d = y.n * x.d

Classifier_new(o) ==
  [ prototypes |-> <<>>,
    prototypesN |-> 0,
    ringPredictions |-> RingBuffer(RingPredictionsN, MODEL_VISEME_SIL, TRUE),
    predictionLast |-> MODEL_VISEME_SIL,
    silSensitivity |-> o.silSensitivity,
    distances |-> <<>> ]

Classifier_clear(c) == [ c EXCEPT !.prototypes = <<>>, !.prototypesN = 0 ]

\* mutation of Classifier_import: every old prototype is dropped, not only
\* those of an incoming group.
Classifier_import_dropAll(c, data) ==
  [ c EXCEPT !.prototypes = data.model,
             !.prototypesN = Len(data.model),
             !.distances = [i \in 1..Len(data.model) |-> Infinity] ]

Classifier_import(c, data) ==
  LET c0 == IF data.reset THEN Classifier_clear(c) ELSE c
      model == data.model
      groups == { model[i].group : i \in { k \in 1..Len(model) : model[k].group # NoGroup } }
      kept == IF groups # {}
              THEN SelectSeq(c0.prototypes, LAMBDA x : x.group \notin groups)
              ELSE c0.prototypes
      all == kept \o model
  IN [ c0 EXCEPT !.prototypes = all,
                 !.prototypesN = Len(all),
                 !.distances = [i \in 1..Len(all) |-> Infinity] ]

Classifier_update(c, name, value) ==
  IF name = "silSentivity" THEN [ c EXCEPT !.silSensitivity = value ] ELSE c

distanceMahalanobis(v, mu, sigmaInvLower) ==
  LET D == MFCC_COEFF_N_WITH_DELTAS
      diff == [i \in 1..D |-> v[i] - mu[i]]
      row == [i \in 1..D |->
                sigmaInvLower[IndexSigmaInvLower(i - 1, i - 1) + 1] * diff[i] * diff[i]
                + Sum([j \in 1..(i - 1) |->
                         2 * sigmaInvLower[IndexSigmaInvLower(i - 1, j - 1) + 1]
                           * diff[i] * diff[j]], i - 1)]
  IN Sum(row, D)

\* The loop over the prototypes of predict: the index (1-based) of the last
\* prototype whose distance is <= every earlier minimum.
RECURSIVE MinScan(_, _, _, _)
MinScan(distances, i, minD, minP) ==
  IF i > Len(distances) THEN minP
  ELSE IF FracLeq(distances[i], minD)
       THEN MinScan(distances, i + 1, distances[i], i)
       ELSE MinScan(distances, i + 1, minD, minP)

\* mutation of VoteScan: a later viseme replaces the leader only with a
\* strictly greater count.
RECURSIVE VoteScanStrict(_, _, _, _)
VoteScanStrict(counts, i, viseme, maxCount) ==
  IF i >= MODEL_VISEMES_N THEN viseme
  ELSE IF counts[i] > maxCount
       THEN VoteScanStrict(counts, i + 1, i, counts[i])
       ELSE VoteScanStrict(counts, i + 1, viseme, maxCount)

\* mutation of VoteScan: maxCount is never raised, so every viseme ID replaces
\* the leader.
RECURSIVE VoteScanNoMax(_, _, _, _)
VoteScanNoMax(counts, i, viseme, maxCount) ==
  IF i >= MODEL_VISEMES_N THEN viseme
  ELSE IF counts[i] >= maxCount
       THEN VoteScanNoMax(counts, i + 1, i, maxCount)
       ELSE VoteScanNoMax(counts, i + 1, viseme, maxCount)

\* The majority-vote loop of predict over the viseme IDs i..MODEL_VISEMES_N-1.
RECURSIVE VoteScan(_, _, _, _)
VoteScan(counts, i, viseme, maxCount) ==
  IF i >= MODEL_VISEMES_N THEN viseme
  ELSE IF counts[i] >= maxCount
       THEN VoteScan(counts, i + 1, i, counts[i])
       ELSE VoteScan(counts, i + 1, viseme, maxCount)

\* counts[] of predict: how many slots of the ring hold each viseme.
VoteCounts(ring) ==
  [v \in 0..(MODEL_VISEMES_N - 1) |->
     Cardinality({ k \in 1..ring.capacity : ring.buf[k] = v })]

\* The feature vectors, means and inverse covariances of the model inputs, and
\* distanceMahalanobis tabulated over them (evaluated once).
AllVectors == { Vec(a, b) : a \in { 0, 2, 4 }, b \in { 0, 2, 4 } }
AllSigmas == { SigmaInvLower(1, 0), SigmaInvLower(2, 1) }
DistanceTable ==
  [ v \in AllVectors |-> [ mu \in AllVectors |-> [ s \in AllSigmas |->
      distanceMahalanobis(v, mu, s) ] ] ]

\* The distance predict stores for prototype p and a vector.
PrototypeDistance(p, vector, silSensitivity) ==
  LET d == DistanceTable[vector][p.mu][p.sigmaInvLower]
  IN IF p.viseme = MODEL_VISEME_SIL THEN Frac(10 * d, silSensitivity) ELSE Frac(d, 1)

\* mutation of PredictResult: the vote is suppressed whenever it repeats the
\* last prediction, silence or not.
PredictResultChangedOnly(c, distances, ring, vote) ==
  IF vote = c.predictionLast
  THEN [ classifier |-> [ c EXCEPT !.distances = distances, !.ringPredictions = ring ],
         viseme |-> Null,
         distances |-> distances ]
  ELSE [ classifier |-> [ c EXCEPT !.distances = distances, !.ringPredictions = ring,
                                   !.predictionLast = vote ],
         viseme |-> vote,
         distances |-> distances ]

\* The end of predict ("Prediction"): the majority vote is suppressed when it
\* repeats the silence viseme, and is recorded as the last prediction otherwise.
PredictResult(c, distances, ring, vote) ==
  IF vote = c.predictionLast /\ vote = MODEL_VISEME_SIL
  THEN [ classifier |-> [ c EXCEPT !.distances = distances, !.ringPredictions = ring ],
         viseme |-> Null,
         distances |-> distances ]
  ELSE [ classifier |-> [ c EXCEPT !.distances = distances, !.ringPredictions = ring,
                                   !.predictionLast = vote ],
         viseme |-> vote,
         distances |-> distances ]

\* The majority vote of predict over the ring after the raw prediction went in.
PredictVote(c, distances, ring) ==
  PredictResult(c, distances, ring, VoteScan(VoteCounts(ring), 0, 0, 0))

\* predict from the distances on: the nearest prototype's viseme goes into the ring.
PredictNearest(c, distances) ==
  PredictVote(c, distances,
              Ring_add(c.ringPredictions,
                       c.prototypes[MinScan(distances, 1, Infinity, 1)].viseme))

\* predict(vector): the classifier afterwards and the viseme returned.
Classifier_predict(c, vector) ==
  IF c.prototypesN = 0
  THEN [ classifier |-> c, viseme |-> Null, distances |-> <<>> ]
  ELSE PredictNearest(c, [i \in 1..c.prototypesN |->
                            PrototypeDistance(c.prototypes[i], vector, c.silSensitivity)])

\* ------------------------------------------------------------- processor.mjs
\* A message on the port in either direction.  viseme is Null, model is <<>>
\* and reset is FALSE where the message of the source has no such field.
Msg(event) == [ event |-> event, viseme |-> Null, model |-> <<>>, reset |-> FALSE, vs |-> <<>> ]
VisemeMsg(viseme) == [ Msg("viseme") EXCEPT !.viseme = viseme ]
ModelMsg(model) == [ Msg("model") EXCEPT !.model = model ]
CalibratedMsg(vs) == [ Msg("calibrated") EXCEPT !.vs = vs ]

\* The value of a property that was never assigned.
Undefined == 0 - 1

\* parameterData defaults of the constructor (dB, ms, tenths of a second, tenths).
DefaultParameterData ==
  [ vadMode |-> 1,
    vadGateActiveDb |-> 0 - 40,
    vadGateActiveMs |-> 10,
    vadGateInactiveDb |-> 0 - 50,
    vadGateInactiveMs |-> 10,
    silMode |-> 1,
    silCalibrationWindowSec |-> 30,
    silSensitivity |-> 12,
    featureEventsEnabled |-> FALSE ]   \* of processorOptions

\* calibrationWindowN for a window given in tenths of a second.
CalibrationWindowN(sec10) ==
  Max(100, (sec10 * MFCC_SAMPLES_HOP) \div (10 * AUDIO_SAMPLE_RATE))

Processor_new(pd) ==
  [ ringSamples |-> RingBuffer(SamplesN, 0, FALSE),
    vadMode |-> pd.vadMode,
    isRunning |-> TRUE,
    isSpeaking |-> FALSE,
    silMode |-> pd.silMode,
    silSensitivity |-> Undefined,
    ringCalibration |-> RingBuffer(CalibrationWindowN(pd.silCalibrationWindowSec), <<>>, FALSE),
    isCalibrationRunning |-> FALSE,
    featureEventsEnabled |-> pd.featureEventsEnabled ]

\* The downsampling fields of the processor for options.sampleRate.  The
\* accumulator is held as a whole number of 1 / sampleRate; phaseIndex is the
\* index last computed in process, thrown whether process has thrown.
NoPhase == 0 - 1
Resampler_new(sampleRate) ==
  [ sampleRate |-> sampleRate,
    downsamplePhaseAccumulator |-> 0,
    phaseIndex |-> NoPhase,
    thrown |-> FALSE ]

\* The while loop of process: while the accumulator is at least 1, look up the
\* filter of the phase and take 1 off.  coeffs[j] throws where the table has
\* no filter at phaseIndex.
RECURSIVE Downsample(_)
Downsample(r) ==
  IF r.downsamplePhaseAccumulator >= r.sampleRate
  THEN IF ((r.downsamplePhaseAccumulator - r.sampleRate) * AUDIO_DOWNSAMPLE_PHASE_N)
            \div r.sampleRate \in 0..(AUDIO_DOWNSAMPLE_PHASE_N - 1)
       THEN Downsample([ r EXCEPT
              !.phaseIndex = ((r.downsamplePhaseAccumulator - r.sampleRate)
                              * AUDIO_DOWNSAMPLE_PHASE_N) \div r.sampleRate,
              !.downsamplePhaseAccumulator = @ - r.sampleRate ])
       ELSE [ r EXCEPT
              !.phaseIndex = ((r.downsamplePhaseAccumulator - r.sampleRate)
                              * AUDIO_DOWNSAMPLE_PHASE_N) \div r.sampleRate,
              !.thrown = TRUE ]
  ELSE r

\* The frame stage of the processor for options.samplesN and
\* options.samplesHop: the ring of resampled samples, the block of the last
\* frame and the count of samples.  framed is no field of the source: it tells
\* whether the last sample had a frame computed.
Sampler_new(options) ==
  [ samplesN |-> options.samplesN,
    samplesHop |-> options.samplesHop,
    ringSamples |-> RingBuffer(options.samplesN, 0, FALSE),
    block |-> [ i \in 1..options.samplesN |-> 0 ],
    isRunning |-> TRUE,
    sampleCount |-> 0,
    framed |-> FALSE ]

\* The block after this.ringSamples.getLatest(block, hop) gave got.
BlockAfter(block, got) == IF got.ok THEN got.out ELSE block

\* mutation of Sampler_add: the block is read without a hop.
Sampler_addNoHop(s, d1) ==
  IF s.isRunning /\ Ring_isFull(Ring_add(s.ringSamples, d1))
  THEN [ s EXCEPT
         !.ringSamples = Ring_getLatest(Ring_add(s.ringSamples, d1), s.samplesN, NoHop).ring,
         !.block = BlockAfter(s.block,
                     Ring_getLatest(Ring_add(s.ringSamples, d1), s.samplesN, NoHop)),
         !.sampleCount = s.sampleCount + 1,
         !.framed = TRUE ]
  ELSE [ s EXCEPT !.ringSamples = Ring_add(s.ringSamples, d1),
                  !.sampleCount = s.sampleCount + 1,
                  !.framed = FALSE ]

\* "Add sample to ring" of process for the resampled sample d1, and the read
\* of the block when the ring is full.
Sampler_add(s, d1) ==
  IF s.isRunning /\ Ring_isFull(Ring_add(s.ringSamples, d1))
  THEN [ s EXCEPT
         !.ringSamples = Ring_getLatest(Ring_add(s.ringSamples, d1), s.samplesN, s.samplesHop).ring,
         !.block = BlockAfter(s.block,
                     Ring_getLatest(Ring_add(s.ringSamples, d1), s.samplesN, s.samplesHop)),
         !.sampleCount = s.sampleCount + 1,
         !.framed = TRUE ]
  ELSE [ s EXCEPT !.ringSamples = Ring_add(s.ringSamples, d1),
                  !.sampleCount = s.sampleCount + 1,
                  !.framed = FALSE ]

\* update(options) for one option: the processor and the gate afterwards.
\* The classifier is not touched by update.
Processor_update(p, g, name, value) ==
  CASE name = "vadMode" -> [ processor |-> [ p EXCEPT !.vadMode = value ], vadGate |-> g ]
    [] name = "silMode" -> [ processor |-> [ p EXCEPT !.silMode = value ], vadGate |-> g ]
    [] name = "silSensitivity" ->
         [ processor |-> [ p EXCEPT !.silSensitivity = value ], vadGate |-> g ]
    [] name = "silCalibrationWindowSec" ->
         [ processor |-> [ p EXCEPT !.ringCalibration =
                               RingBuffer(CalibrationWindowN(value), <<>>, FALSE) ],
           vadGate |-> g ]
    [] name \in { "vadGateActiveDb", "vadGateActiveMs",
                  "vadGateInactiveDb", "vadGateInactiveMs" } ->
         [ processor |-> p, vadGate |-> VadGate_update(g, name, value) ]
    [] OTHER -> [ processor |-> p, vadGate |-> g ]

\* The silence-calibration block of a hop.
\* mutation of HopCalibration: the calibration goes on after 'calibrated'.
HopCalibrationGoesOn(p, v) ==
  IF p.isCalibrationRunning /\ p.silMode = 1
  THEN LET r == Ring_add(p.ringCalibration, v)
       IN IF Ring_isFull(r)
          THEN [ processor |-> [ p EXCEPT !.ringCalibration = r ],
                 posts |-> << CalibratedMsg(r.buf) >> ]
          ELSE [ processor |-> [ p EXCEPT !.ringCalibration = r ], posts |-> <<>> ]
  ELSE [ processor |-> p, posts |-> <<>> ]

HopCalibration(p, v) ==
  IF p.isCalibrationRunning /\ p.silMode = 1
  THEN LET r == Ring_add(p.ringCalibration, v)
       IN IF Ring_isFull(r)
          THEN [ processor |-> [ p EXCEPT !.ringCalibration = r,
                                          !.isCalibrationRunning = FALSE ],
                 posts |-> << CalibratedMsg(r.buf) >> ]
          ELSE [ processor |-> [ p EXCEPT !.ringCalibration = r ], posts |-> <<>> ]
  ELSE [ processor |-> p, posts |-> <<>> ]

\* mutation of HopGate: the inactive branch posts 'ended' without clearing
\* isSpeaking.
HopGateKeepsSpeaking(p, g, le) ==
  IF p.vadMode = 1
  THEN LET g1 == VadGate_process(g, le)
       IN IF g1.inactive # 0
          THEN [ processor |-> p, vadGate |-> g1, skip |-> TRUE,
                 posts |-> IF p.isSpeaking THEN << Msg("ended") >> ELSE <<>> ]
          ELSE [ processor |-> p, vadGate |-> g1, skip |-> FALSE, posts |-> <<>> ]
  ELSE [ processor |-> p, vadGate |-> g, skip |-> FALSE, posts |-> <<>> ]

\* mutation of HopGate: a hop of the inactive gate goes on to classification.
HopGateNoSkip(p, g, le) ==
  IF p.vadMode = 1
  THEN [ processor |-> p, vadGate |-> VadGate_process(g, le), skip |-> FALSE, posts |-> <<>> ]
  ELSE [ processor |-> p, vadGate |-> g, skip |-> FALSE, posts |-> <<>> ]

\* The VAD-gate block of a hop; skip says the hop ends here (continue).
HopGate(p, g, le) ==
  IF p.vadMode = 1
  THEN LET g1 == VadGate_process(g, le)
       IN IF g1.inactive # 0
          THEN [ processor |-> [ p EXCEPT !.isSpeaking = FALSE ],
                 vadGate |-> g1,
                 skip |-> TRUE,
                 posts |-> IF p.isSpeaking THEN << Msg("ended") >> ELSE <<>> ]
          ELSE [ processor |-> p, vadGate |-> g1, skip |-> FALSE, posts |-> <<>> ]
  ELSE [ processor |-> p, vadGate |-> g, skip |-> FALSE, posts |-> <<>> ]

\* mutation of HopSpeak: the viseme message is posted before isSpeaking is
\* looked at.
HopSpeakWithSilence(p, r) ==
  IF p.isSpeaking
  THEN IF r.viseme = MODEL_VISEME_SIL
       THEN [ processor |-> [ p EXCEPT !.isSpeaking = FALSE ],
              classifier |-> r.classifier,
              posts |-> << Msg("ended"), VisemeMsg(r.viseme) >> ]
       ELSE [ processor |-> p,
              classifier |-> r.classifier,
              posts |-> << VisemeMsg(r.viseme) >> ]
  ELSE IF r.viseme # Null /\ r.viseme # MODEL_VISEME_SIL
       THEN [ processor |-> [ p EXCEPT !.isSpeaking = TRUE ],
              classifier |-> r.classifier,
              posts |-> << Msg("started"), VisemeMsg(r.viseme) >> ]
       ELSE [ processor |-> p, classifier |-> r.classifier, posts |-> <<>> ]

\* "Start/stop speaking" and "Viseme message" of a hop whose prediction is r.
HopSpeak(p, r) ==
  IF p.isSpeaking
  THEN IF r.viseme = MODEL_VISEME_SIL
       THEN [ processor |-> [ p EXCEPT !.isSpeaking = FALSE ],
              classifier |-> r.classifier,
              posts |-> << Msg("ended") >> ]
       ELSE [ processor |-> p,
              classifier |-> r.classifier,
              posts |-> << VisemeMsg(r.viseme) >> ]
  ELSE IF r.viseme # Null /\ r.viseme # MODEL_VISEME_SIL
       THEN [ processor |-> [ p EXCEPT !.isSpeaking = TRUE ],
              classifier |-> r.classifier,
              posts |-> << Msg("started"), VisemeMsg(r.viseme) >> ]
       ELSE [ processor |-> p, classifier |-> r.classifier, posts |-> <<>> ]

\* Predict, start/stop speaking and the viseme message of a hop.
HopClassify(p, c, v) == HopSpeak(p, Classifier_predict(c, v))

\* The state and the messages of a hop that went through all three blocks.
HopJoin(cal, gate, cls) ==
  [ processor |-> cls.processor, vadGate |-> gate.vadGate, classifier |-> cls.classifier,
    posts |-> cal.posts \o gate.posts
              \o (IF gate.processor.featureEventsEnabled THEN << Msg("feature") >> ELSE <<>>)
              \o cls.posts ]

\* mutation of HopFromClassify: the hop goes on to classify whatever the gate
\* reported.
HopFromClassifyAlways(cal, gate, c, v) ==
  HopJoin(cal, gate, HopClassify(gate.processor, c, v))

\* A hop whose gate block gave gate: it ends there, or it goes on to classify.
HopFromClassify(cal, gate, c, v) ==
  IF gate.skip
  THEN [ processor |-> gate.processor, vadGate |-> gate.vadGate, classifier |-> c,
         posts |-> cal.posts \o gate.posts ]
  ELSE HopJoin(cal, gate, HopClassify(gate.processor, c, v))

\* A hop from the gate block on, after the calibration block gave cal.
HopFromGate(cal, g, c, le, v) ==
  HopFromClassify(cal, HopGate(cal.processor, g, le), c, v)

\* The body of "if ( this.isRunning && this.ringSamples.isFull() )" for a hop
\* whose frame has log-energy le and feature vector v.
Processor_hop(p, g, c, le, v) ==
  HopFromGate(
    HopCalibration(
      [ p EXCEPT !.ringSamples = Ring_getLatest(p.ringSamples, SamplesN, SamplesHop).ring ],
      v),
    g, c, le, v)

\* _onmessage(message) of the processor.
Processor_onmessage(p, c, data) ==
  CASE data.event = "stop" ->
         [ processor |-> [ p EXCEPT !.isRunning = FALSE, !.isSpeaking = FALSE ],
           classifier |-> c,
           posts |-> IF p.isSpeaking THEN << Msg("end") >> ELSE <<>> ]
    [] data.event = "start" ->
         [ processor |-> [ p EXCEPT !.isRunning = TRUE ], classifier |-> c, posts |-> <<>> ]
    [] data.event = "calibrate" ->
         [ processor |-> [ p EXCEPT !.ringCalibration = Ring_clear(p.ringCalibration, 0),
                                    !.isCalibrationRunning = TRUE ],
           classifier |-> c, posts |-> <<>> ]
    [] data.event = "model" ->
         [ processor |-> p, classifier |-> Classifier_import(c, data), posts |-> <<>> ]
    [] data.event = "reset" ->
         [ processor |-> [ p EXCEPT !.ringSamples = Ring_clear(p.ringSamples, 0) ],
           classifier |-> c, posts |-> <<>> ]
    [] OTHER -> [ processor |-> p, classifier |-> c, posts |-> <<>> ]

\* ------------------------------------------------------------------- mfcc.mjs
MFCC_SAMPLES_N == 512
MFCC_MEL_BANDS_N == 40

\* The mean pitches the extractor is given.
SpeakerMeanHzs == { 90, 120, 150, 200, 270 }

\* bin of _buildMelFilterbank(f0): the MFCC_MEL_BANDS_N + 2 warped mel points
\* as FFT bins, floor(melInv(melLow + (m - melLow) * warp) / 16000 * 512),
\* tabulated for the pitches of SpeakerMeanHzs.
MelBins(f0) ==
  CASE f0 = 90 ->
         << 0, 1, 2, 3, 4, 5, 6, 7, 8, 9, 11, 12, 13, 14, 16, 17, 19, 20, 22,
            23, 25, 27, 29, 30, 32, 34, 37, 39, 41, 43, 46, 48, 51, 54, 56,
            59, 62, 65, 69, 72, 75, 79 >>
    [] f0 = 120 ->
         << 0, 2, 3, 4, 5, 7, 8, 10, 11, 13, 15, 17, 19, 21, 23, 25, 27, 30,
            32, 35, 38, 41, 44, 47, 51, 54, 58, 62, 66, 71, 75, 80, 85, 91,
            96, 102, 108, 115, 121, 128, 136, 144 >>
    [] f0 = 150 ->
         << 0, 2, 3, 5, 7, 9, 11, 13, 15, 17, 20, 22, 25, 28, 31, 34, 38, 42,
            46, 50, 54, 59, 64, 70, 75, 81, 88, 95, 102, 110, 118, 127, 136,
            146, 156, 167, 179, 191, 204, 218, 233, 249 >>
    [] f0 = 200 ->
         << 0, 2, 5, 7, 9, 12, 15, 18, 21, 25, 29, 33, 38, 43, 49, 54, 61, 68,
            75, 84, 92, 102, 112, 124, 136, 149, 163, 179, 195, 214, 233, 255,
            278, 303, 330, 359, 391, 425, 462, 503, 546, 594 >>
    [] f0 = 270 ->
         << 0, 3, 6, 9, 13, 17, 22, 27, 32, 39, 46, 54, 62, 72, 83, 95, 108,
            123, 140, 158, 179, 202, 227, 256, 287, 323, 362, 406, 455, 509,
            569, 637, 712, 796, 889, 992, 1108, 1237, 1380, 1540, 1717, 1916 >>

\* One triangular filter written over fbank: the rising weights on the bins
\* b0..b1-1 and the falling ones on b1..b2-1, as fractions; a write beyond
\* the typed array is dropped, every other weight stays as it was.
BuildFilter(fbank, b0, b1, b2) ==
  [ k \in 0..(MFCC_SAMPLES_N \div 2 - 1) |->
      IF k >= b0 /\ k < b1 THEN Frac(k - b0, b1 - b0)
      ELSE IF k >= b1 /\ k < b2 THEN Frac(b2 - k, b2 - b1)
      ELSE fbank[k] ]

\* _buildMelFilterbank(f0) on the filters of the extractor.
MFCC_buildMelFilterbank(filters, f0) ==
  [ i \in 0..(MFCC_MEL_BANDS_N - 1) |->
      BuildFilter(filters[i], MelBins(f0)[i + 1], MelBins(f0)[i + 2], MelBins(f0)[i + 3]) ]

\* The extractor is held as the pitches its filterbank was built for, the
\* constructor's first; melFilters is what these builds leave.
\* new MFCC(options): zeroed filters, then _buildMelFilterbank.
MFCC_new(o) == [ speakerMeanHz |-> << o.speakerMeanHz >> ]

MFCC_update(m, name, value) ==
  IF name = "speakerMeanHz"
  THEN [ speakerMeanHz |-> Append(m.speakerMeanHz, value) ]
  ELSE m

RECURSIVE BuildAll(_, _)
BuildAll(filters, given) ==
  IF given = <<>> THEN filters
  ELSE BuildAll(MFCC_buildMelFilterbank(filters, Head(given)), Tail(given))

\* this.melFilters of the extractor m.
melFilters(m) ==
  BuildAll([ i \in 0..(MFCC_MEL_BANDS_N - 1) |->
               [ k \in 0..(MFCC_SAMPLES_N \div 2 - 1) |-> Frac(0, 1) ] ],
           m.speakerMeanHz)

\* -------------------------------------------------------------- training.mjs
RECURSIVE GCD(_, _)
GCD(a, b) == IF b = 0 THEN a ELSE GCD(b, a % b)

\* The fraction n / d in lowest terms (n >= 0, d > 0).
Reduced(n, d) == Frac(n \div GCD(n, d), d \div GCD(n, d))

\* The reciprocal of 1e-5, the factor of the numerical stabilization, times
\* the number of coefficients.
JitterDiv == 100000 * MFCC_COEFF_N_WITH_DELTAS

\* Sum of coefficient i over the vectors lo..hi of vs (summed by halves).
RECURSIVE ColumnSum(_, _, _, _)
ColumnSum(vs, i, lo, hi) ==
  IF lo > hi THEN 0
  ELSE IF lo = hi THEN vs[lo][i]
  ELSE ColumnSum(vs, i, lo, (lo + hi) \div 2) + ColumnSum(vs, i, (lo + hi) \div 2 + 1, hi)

\* Sum over the vectors lo..hi of (M * row[i] - S)^2, which is M^2 times
\* (row[i] - mu[i])^2 for mu[i] = S / M.
RECURSIVE SquareSum(_, _, _, _, _, _)
SquareSum(vs, i, M, S, lo, hi) ==
  IF lo > hi THEN 0
  ELSE IF lo = hi THEN (M * vs[lo][i] - S) * (M * vs[lo][i] - S)
  ELSE SquareSum(vs, i, M, S, lo, (lo + hi) \div 2)
       + SquareSum(vs, i, M, S, (lo + hi) \div 2 + 1, hi)

\* sigma[i][i], the variance of coefficient i: the sum of (row[i] - mu[i])^2
\* over M - 1.
Variance(vs, i) ==
  Reduced(SquareSum(vs, i, Len(vs), ColumnSum(vs, i, 1, Len(vs)), 1, Len(vs)),
          Len(vs) * Len(vs) * (Len(vs) - 1))

\* trace of sigma for vectors that vary in their first coefficient only.
Trace(vs) == Variance(vs, 1)

\* The pivot L[i][i]^2 of the Cholesky decomposition, sigma[i][i] + baseJitter
\* with baseJitter = trace / N * 1e-5, for a diagonal sigma.
Pivot(sigma, trace) ==
  Frac(sigma.n * trace.d * JitterDiv + trace.n * sigma.d, sigma.d * trace.d * JitterDiv)

\* computePrototype(phoneme, group, viseme, vs) for vectors vs that vary in
\* their first coefficient only (sigma is diagonal then): ok is FALSE where
\* the source throws.
computePrototype(phoneme, group, viseme, vs) ==
  IF Len(vs) < MFCC_COEFF_N_WITH_DELTAS
  THEN [ ok |-> FALSE, prototype |-> <<>> ]
  ELSE IF \E i \in 1..MFCC_COEFF_N_WITH_DELTAS : Pivot(Variance(vs, i), Trace(vs)).n <= 0
  THEN [ ok |-> FALSE, prototype |-> <<>> ]
  ELSE [ ok |-> TRUE,
         prototype |->
           Prototype(phoneme, group, viseme,
             [ i \in 1..MFCC_COEFF_N_WITH_DELTAS |-> Frac(ColumnSum(vs, i, 1, Len(vs)), Len(vs)) ],
             [ k \in 1..SigmaInvLowerLen |->
                 IF \E i \in 0..(MFCC_COEFF_N_WITH_DELTAS - 1) : k - 1 = IndexSigmaInvLower(i, i)
                 THEN LET i == CHOOSE i \in 0..(MFCC_COEFF_N_WITH_DELTAS - 1) :
                                 k - 1 = IndexSigmaInvLower(i, i)
                          pv == Pivot(Variance(vs, i + 1), Trace(vs))
                      IN Frac(pv.d, pv.n)
                 ELSE Frac(0, 1) ]) ]

\* The binary record: lengths in 32-bit words, RECORD_OFFSET in bytes.
RECORD_HEADER_LEN == 2
RecordLen(D) == RECORD_HEADER_LEN + D + (D * (D + 1)) \div 2
RECORD_LEN == RecordLen(MFCC_COEFF_N_WITH_DELTAS)
RECORD_OFFSET == 4 * RECORD_LEN

\* The phonemes of the models; a phoneme is packed as its place in this list.
Phonemes == << "aa", "si", "O", "E", "CH", "sc" >>
PhPacked(phoneme) == CHOOSE k \in 1..Len(Phonemes) : Phonemes[k] = phoneme
PhUnpacked(phPacked) == IF phPacked \in 1..Len(Phonemes) THEN Phonemes[phPacked] ELSE "?"

\* The record of a prototype as computePrototype lays it out: a word of the
\* packed phoneme, a word holding the bytes group and viseme, mu, sigmaInvLower.
Record(p) == << PhPacked(p.phoneme), p.group * 256 + p.viseme >> \o p.mu \o p.sigmaInvLower

\* The words of a model file: the records of its prototypes one after another.
RECURSIVE Blob(_)
Blob(model) == IF model = <<>> THEN <<>> ELSE Record(Head(model)) \o Blob(Tail(model))

decodeBinaryRecord(record) ==
  Prototype(PhUnpacked(record[1]), record[2] \div 256, record[2] % 256,
            SubSeq(record, RECORD_HEADER_LEN + 1, RECORD_HEADER_LEN + MFCC_COEFF_N_WITH_DELTAS),
            SubSeq(record, RECORD_HEADER_LEN + MFCC_COEFF_N_WITH_DELTAS + 1, RECORD_LEN))

\* What fetch(location) gives: ok, and a body of 4 * Len(words) + tail bytes.
\* d is the feature dimension the records of the body were built for.
Response(ok, words, tail, d) == [ ok |-> ok, words |-> words, tail |-> tail, d |-> d ]
ByteLength(response) == 4 * Len(response.words) + response.tail

\* mutation of Training_loadModel: a body without a whole record is accepted.
Training_loadModelNoCheck(response) ==
  IF ~response.ok THEN [ ok |-> FALSE, model |-> <<>> ]
  ELSE [ ok |-> TRUE,
         model |-> [ k \in 1..(ByteLength(response) \div RECORD_OFFSET) |->
                       decodeBinaryRecord(SubSeq(response.words, (k - 1) * RECORD_LEN + 1,
                                                 k * RECORD_LEN)) ] ]

\* loadModel(location) of Training: ok is FALSE where the source throws.  The
\* loop decodes a record at every pos with pos + RECORD_OFFSET <= len.
Training_loadModel(response) ==
  IF ~response.ok THEN [ ok |-> FALSE, model |-> <<>> ]
  ELSE IF ByteLength(response) \div RECORD_OFFSET = 0 THEN [ ok |-> FALSE, model |-> <<>> ]
  ELSE [ ok |-> TRUE,
         model |-> [ k \in 1..(ByteLength(response) \div RECORD_OFFSET) |->
                       decodeBinaryRecord(SubSeq(response.words, (k - 1) * RECORD_LEN + 1,
                                                 k * RECORD_LEN)) ] ]

\* No loadModel call yet.
NotFetched == [ response |-> Response(FALSE, <<>>, 0, MFCC_COEFF_N_WITH_DELTAS), resolved |-> FALSE ]

\* ------------------------------------------------------------- headaudio.mjs
visemeNames ==
  << "viseme_aa", "viseme_E", "viseme_I", "viseme_O", "viseme_U",
     "viseme_PP", "viseme_SS", "viseme_TH", "viseme_DD", "viseme_FF",
     "viseme_kk", "viseme_nn", "viseme_RR", "viseme_CH", "viseme_sil" >>
nVisemes == Len(visemeNames)

\* visemeAlphas holds hundredths.  oncalibrated is what the callback of that
\* name was last called with, onviseme the viseme of the last 'viseme' event
\* handled, onvalue the keys the last update(dt) called onvalue with.
HeadAudio_new ==
  [ isRunning |-> TRUE, visemeActive |-> 0 - 1, oncalibrated |-> "never",
    visemeAlphas |-> [ i \in 0..(nVisemes - 1) |-> 0 ],
    onviseme |-> Null, onvalue |-> {} ]

\* _onmessage(message) of the node, for the events of the speech stream: what
\* it does to the node (the callbacks onstarted / onended are the host's).
HeadAudio_onmessage(h, data) ==
  CASE data.event = "viseme" ->
         [ h EXCEPT !.visemeActive =
                      IF data.viseme # Null /\ data.viseme # 0
                      THEN (IF data.viseme = MODEL_VISEME_SIL THEN 0 - 1 ELSE data.viseme)
                      ELSE h.visemeActive,
                    !.onviseme = data.viseme ]
    [] data.event = "started" -> h
    [] data.event = "ended" -> [ h EXCEPT !.visemeActive = 0 - 1 ]
    [] data.event = "calibrated" ->
         [ h EXCEPT !.oncalibrated =
                      IF computePrototype("sc", 255, MODEL_VISEME_SIL, data.vs).ok
                      THEN "data" ELSE "data with error" ]
    [] OTHER -> h

\* alpha of viseme i after update(dt), dt in milliseconds (da = dt / 100).
AlphaAfter(h, i, dt) ==
  IF i = h.visemeActive
  THEN IF h.visemeAlphas[i] < 100
       THEN (IF h.visemeAlphas[i] + dt > 99 THEN 100 ELSE h.visemeAlphas[i] + dt)
       ELSE h.visemeAlphas[i]
  ELSE IF h.visemeAlphas[i] > 0
       THEN (IF h.visemeAlphas[i] - dt < 1 THEN 0 ELSE h.visemeAlphas[i] - dt)
       ELSE h.visemeAlphas[i]

\* update(dt): the alphas move towards the active viseme; onvalue is called
\* for the active viseme and for every viseme whose alpha was above 0.
HeadAudio_update(h, dt) ==
  [ h EXCEPT !.visemeAlphas = [ i \in 0..(nVisemes - 1) |-> AlphaAfter(h, i, dt) ],
             !.onvalue = { visemeNames[i + 1] :
                           i \in { k \in 0..(nVisemes - 1) :
                                   k = h.visemeActive \/ h.visemeAlphas[k] > 0 } } ]

\* mutation of HeadAudio_posts: the model message is posted whatever
\* computePrototype did.
HeadAudio_postsAlways(h, data) ==
  IF data.event = "calibrated"
  THEN << ModelMsg(<< Prototype("sc", 255, MODEL_VISEME_SIL, Vec(0, 0), SigmaInvLower(1, 0)) >>) >>
  ELSE <<>>

\* The messages _onmessage(message) of the node posts to the processor.
HeadAudio_posts(h, data) ==
  IF data.event = "calibrated"
  THEN LET r == computePrototype("sc", 255, MODEL_VISEME_SIL, data.vs)
       IN IF r.ok THEN << ModelMsg(<< r.prototype >>) >> ELSE <<>>
  ELSE <<>>

\* --------------------------------------------------------------- model inputs
SigmaUnit == SigmaInvLower(1, 0)
SigmaCross == SigmaInvLower(2, 1)

\* The model files the host can load: a speech and a silence prototype of
\* group 0, and a single speech prototype of group 1.
ModelA ==
  << Prototype("aa", 0, 0, Vec(4, 0), SigmaUnit),
     Prototype("si", 0, MODEL_VISEME_SIL, Vec(0, 0), SigmaUnit) >>
ModelB == << Prototype("O", 1, 0, Vec(0, 4), SigmaCross) >>
ModelAt(url) == IF url = "a.bin" THEN ModelA ELSE ModelB
Urls == { "a.bin", "b.bin" }

\* Log-energies of a hop (times 10) and feature vectors of a hop.
Dbs == { 0 - 60, 0 - 40, 0 - 30 }
Vectors == { Vec(4, 0), Vec(0, 0) }

\* Control messages the processor receives.
Messages ==
  { Msg("start"), Msg("stop"), Msg("reset"), ModelMsg(ModelA) }

\* Live parameter updates the host makes.
Updates ==
  { <<"vadMode", 0>>, <<"vadMode", 1>> }

\* ----------------------------------------------------------------- the state
VARIABLES
  processor,    \* the Processor object (audio thread)
  vadGate,      \* processor.vadGate
  classifier,   \* processor.classifier
  headaudio,    \* the HeadAudio node (main thread)
  toProcessor,  \* messages posted by the node, not yet handled by the processor
  toNode,       \* messages posted by the processor, not yet handled by the node
  boundary,     \* history: the last 'started' / 'ended' event posted, or "none"
  quiet,        \* history: the gate ran on every hop so far and no hop was above activeLE
  loud,         \* history: hops above activeLE in a row, counted from preActive = 0
  edge,         \* history: 'ended' events posted since a speaking gate went inactive
  load,         \* history: the model of the last loadModel(url, true) and how many
                \* messages are queued up to its last one; the model is forgotten
                \* when the processor handles a message after that one
  ring,         \* a RingBuffer used on its own
  window,       \* history: the silCalibrationWindowSec last configured (tenths of a second)
  fetched,      \* history: the response loadModel last fetched, and how the call ended
  resampler,    \* the downsampling stage of the processor
  mfcc,         \* processor.mfcc: the pitches its mel filterbank was built for, in order
  gateMs,       \* history: the vadGateActiveMs / vadGateInactiveMs last configured
  sampler,      \* the frame stage of a processor that runs from construction
  ringLog       \* history of ring: whether only add has been called, the last items
                \* added while that was so (at most its capacity), and whether the
                \* last getLatest returned its array (not null)

vars == << processor, vadGate, classifier, headaudio, toProcessor, toNode,
           boundary, quiet, loud, edge, load, ring, ringLog, window, fetched,
           resampler, mfcc, gateMs, sampler >>

\* Messages the processor may leave unhandled by the node before it goes on.
MaxPending == 0

\* A ring of the given capacity, as new RingBuffer(capacity) leaves it.
InitRingWith(capacity) ==
  /\ ring = RingBuffer(capacity, 0, FALSE)
  /\ ringLog = [ items |-> <<>>, onlyAdds |-> TRUE, ok |-> TRUE ]

InitWith(pd) ==
  /\ InitRingWith(1)
  /\ window = pd.silCalibrationWindowSec
  /\ fetched = NotFetched
  /\ resampler = Resampler_new(AUDIO_SAMPLE_RATE)
  /\ sampler = Sampler_new([ samplesN |-> SamplesN, samplesHop |-> SamplesHop ])
  /\ mfcc = MFCC_new([ speakerMeanHz |-> 150 ])
  /\ gateMs = [ active |-> pd.vadGateActiveMs, inactive |-> pd.vadGateInactiveMs ]
  /\ processor = Processor_new(pd)
  /\ vadGate = VadGate_new(pd)
  /\ classifier = Classifier_new(pd)
  /\ headaudio = HeadAudio_new
  /\ toProcessor = <<>>
  /\ toNode = <<>>
  /\ boundary = "none"
  /\ quiet = TRUE
  /\ loud = 0
  /\ edge = 0 - 1
  /\ load = [ pending |-> 0, model |-> <<>> ]

Init == InitWith(DefaultParameterData)

\* gateMs after update(options) with the option name.
GateMsAfter(ms, name, value) ==
  CASE name = "vadGateActiveMs" -> [ ms EXCEPT !.active = value ]
    [] name = "vadGateInactiveMs" -> [ ms EXCEPT !.inactive = value ]
    [] OTHER -> ms

\* boundary after the messages posts have been posted.
RECURSIVE BoundaryAfter(_, _)
BoundaryAfter(b, posts) ==
  IF posts = <<>> THEN b
  ELSE BoundaryAfter(IF Head(posts).event \in { "started", "ended" }
                     THEN Head(posts).event ELSE b,
                     Tail(posts))

Ended(posts) == Len(SelectSeq(posts, LAMBDA m : m.event = "ended"))

\* loud after the gate has processed a hop of log-energy le in state g.
LoudAfter(g, n, le) ==
  IF g.active = 0 /\ le > g.activeLE /\ (n > 0 \/ g.preActive = 0) THEN n + 1 ELSE 0

\* edge after a hop of the enabled gate that took it from g to g1.
EdgeAfter(e, speaking, g, g1, posts) ==
  IF g.active # 0 /\ g1.inactive # 0 /\ speaking THEN Ended(posts)
  ELSE IF e >= 0 /\ g1.inactive # 0 THEN Min(2, e + Ended(posts))
  ELSE 0 - 1

\* ------------------------------------------------- the processor (audio thread)
\* _onmessage for a message data arriving at the processor.
OnMessage(data) ==
  /\ Len(toNode) <= MaxPending
  /\ LET r == Processor_onmessage(processor, classifier, data)
     IN /\ Len(r.classifier.prototypes) <= MaxPrototypes
        /\ processor' = r.processor
        /\ classifier' = r.classifier
        /\ toNode' = toNode \o r.posts
        /\ boundary' = BoundaryAfter(boundary, r.posts)
  /\ UNCHANGED << vadGate, headaudio, toProcessor, quiet, loud, edge, load, ring, ringLog, window, fetched, resampler, mfcc, gateMs, sampler >>

Update(name, value) ==
  /\ LET r == Processor_update(processor, vadGate, name, value)
     IN /\ processor' = r.processor
        /\ vadGate' = r.vadGate
        /\ loud' = IF r.vadGate # vadGate THEN 0 ELSE loud
  /\ edge' = IF name = "vadMode" THEN 0 - 1 ELSE edge
  /\ window' = IF name = "silCalibrationWindowSec" THEN value ELSE window
  /\ gateMs' = GateMsAfter(gateMs, name, value)
  /\ UNCHANGED << classifier, headaudio, toProcessor, toNode, boundary, quiet, load,
                  ring, ringLog, fetched, resampler, mfcc, sampler >>

\* process(data) for one resampled sample that does not complete a frame.
ProcessSample ==
  /\ LET r == Ring_add(processor.ringSamples, 0)
     IN /\ ~(processor.isRunning /\ Ring_isFull(r))
        /\ processor' = [ processor EXCEPT !.ringSamples = r ]
  /\ UNCHANGED << vadGate, classifier, headaudio, toProcessor, toNode,
                  boundary, quiet, loud, edge, load, ring, ringLog, window, fetched, resampler, mfcc, gateMs, sampler >>

\* The state after a hop that gave h.
HopDone(h) ==
  /\ processor' = h.processor
  /\ vadGate' = h.vadGate
  /\ classifier' = h.classifier
  /\ toNode' = toNode \o h.posts
  /\ boundary' = BoundaryAfter(boundary, h.posts)
  /\ edge' = IF processor.vadMode = 1
             THEN EdgeAfter(edge, processor.isSpeaking, vadGate, h.vadGate, h.posts)
             ELSE 0 - 1

\* process(data) for one resampled sample that completes a frame of
\* log-energy le and feature vector v.
ProcessHop(le, v) ==
  /\ Len(toNode) <= MaxPending
  /\ processor.isRunning
  /\ Ring_isFull(Ring_add(processor.ringSamples, 0))
  /\ HopDone(Processor_hop([ processor EXCEPT !.ringSamples = Ring_add(@, 0) ],
                           vadGate, classifier, le, v))
  /\ quiet' = (quiet /\ processor.vadMode = 1 /\ le <= vadGate.activeLE)
  /\ UNCHANGED << headaudio, toProcessor, loud, load, ring, ringLog, window, fetched, resampler, mfcc, gateMs, sampler >>

\* ------------------------------------------------------ the node (main thread)
\* The node handles the oldest message of the processor.
NodeMessage ==
  /\ toNode # <<>>
  /\ headaudio' = HeadAudio_onmessage(headaudio, Head(toNode))
  /\ toProcessor' = toProcessor \o HeadAudio_posts(headaudio, Head(toNode))
  /\ toNode' = Tail(toNode)
  /\ UNCHANGED << processor, vadGate, classifier,
                  boundary, quiet, loud, edge, load, ring, ringLog, window, fetched, resampler, mfcc, gateMs, sampler >>

Next ==
  \/ \E data \in Messages : OnMessage(data)
  \/ \E u \in Updates : Update(u[1], u[2])
  \/ ProcessSample
  \/ \E le \in Dbs, v \in Vectors : ProcessHop(le, v)
  \/ NodeMessage

\* The processor with its default gate, fed hops whose vectors fall on the
\* speech and on the silence prototype.
Spec == Init /\ [][Next]_vars

\* The same processor constructed with processorOptions.featureEventsEnabled.
InitFeat == InitWith([ DefaultParameterData EXCEPT !.featureEventsEnabled = TRUE ])

SpecFeat == InitFeat /\ [][Next]_vars

\* ---------------------------------------------------------------- gate variety
\* The processor fed speech-like vectors only, with both model files, four
\* energy levels and live changes of the gate's thresholds and durations.
GateMessages ==
  { Msg("start"), Msg("stop"), Msg("reset"), ModelMsg(ModelA), ModelMsg(ModelB) }
GateUpdates ==
  { <<"vadMode", 0>>, <<"vadMode", 1>>, <<"vadGateActiveDb", 0 - 45>>,
    <<"vadGateActiveMs", 32>>, <<"vadGateInactiveMs", 32>> }
GateDbs == { 0 - 60, 0 - 45, 0 - 40, 0 - 30 }
GateVectors == { Vec(4, 0) }

NextGate ==
  \/ \E data \in GateMessages : OnMessage(data)
  \/ \E u \in GateUpdates : Update(u[1], u[2])
  \/ ProcessSample
  \/ \E le \in GateDbs, v \in GateVectors : ProcessHop(le, v)
  \/ NodeMessage

SpecGate == Init /\ [][NextGate]_vars

\* ------------------------------------------------------------ the gate alone
VadMs == { 10, 32, 48 }
VadDbs == { 0 - 60, 0 - 50, 0 - 45, 0 - 40, 0 - 35, 0 - 30 }
VadUpdates ==
  { <<"vadGateActiveDb", 0 - 45>>, <<"vadGateActiveDb", 0 - 40>>,
    <<"vadGateActiveMs", 0>>, <<"vadGateActiveMs", 16>>, <<"vadGateActiveMs", 32>>,
    <<"vadGateActiveMs", 40>>, <<"vadGateActiveMs", 48>>,
    <<"vadGateInactiveDb", 0 - 45>>, <<"vadGateInactiveMs", 40>> }

InitVad ==
  \E a \in VadMs, i \in VadMs :
    InitWith([ DefaultParameterData EXCEPT !.vadGateActiveMs = a, !.vadGateInactiveMs = i ])

\* vadGate.process(le) called on its own.
VadProcess(le) ==
  /\ vadGate' = VadGate_process(vadGate, le)
  /\ loud' = LoudAfter(vadGate, loud, le)
  /\ UNCHANGED << processor, classifier, headaudio, toProcessor, toNode,
                  boundary, quiet, edge, load, ring, ringLog, window, fetched, resampler, mfcc, gateMs, sampler >>

\* vadGate.update(options) called on its own, for one option.
VadUpdate(name, value) ==
  /\ vadGate' = VadGate_update(vadGate, name, value)
  /\ loud' = 0
  /\ gateMs' = GateMsAfter(gateMs, name, value)
  /\ UNCHANGED << processor, classifier, headaudio, toProcessor, toNode,
                  boundary, quiet, edge, load, ring, ringLog, window, fetched, resampler,
                  mfcc, sampler >>

NextVad ==
  \/ \E le \in VadDbs : VadProcess(le)
  \/ \E u \in VadUpdates : VadUpdate(u[1], u[2])

SpecVad == InitVad /\ [][NextVad]_vars

\* ------------------------------------------------------- the classifier alone
\* classifier.import(data) called on its own.
Import(data) ==
  /\ LET c == Classifier_import(classifier, data)
     IN /\ Len(c.prototypes) <= MaxPrototypes
        /\ classifier' = c
  /\ UNCHANGED << processor, vadGate, headaudio, toProcessor, toNode,
                  boundary, quiet, loud, edge, load, ring, ringLog, window, fetched, resampler, mfcc, gateMs, sampler >>

\* classifier.predict(v) called on its own.
Predict(v) ==
  /\ classifier' = Classifier_predict(classifier, v).classifier
  /\ UNCHANGED << processor, vadGate, headaudio, toProcessor, toNode,
                  boundary, quiet, loud, edge, load, ring, ringLog, window, fetched, resampler, mfcc, gateMs, sampler >>

\* A model with one prototype for each of four visemes, and the vectors that
\* fall on them.
VoteModel ==
  << Prototype("aa", 0, 0, Vec(4, 0), SigmaUnit),
     Prototype("E", 0, 1, Vec(0, 4), SigmaUnit),
     Prototype("CH", 0, 13, Vec(4, 4), SigmaUnit),
     Prototype("si", 0, MODEL_VISEME_SIL, Vec(0, 0), SigmaUnit) >>
VoteVectors == { Vec(4, 0), Vec(0, 4), Vec(4, 4), Vec(0, 0) }

NextVote ==
  \/ Import([ model |-> VoteModel, reset |-> FALSE ])
  \/ \E v \in VoteVectors : Predict(v)

SpecVote == Init /\ [][NextVote]_vars

\* Imports of every kind: the model files, a calibrated silence prototype of
\* group 255, a prototype without a group, a model of two groups; with and
\* without the reset flag.
ModelC == << Prototype("sc", 255, MODEL_VISEME_SIL, Vec(0, 2), SigmaUnit) >>
ModelN == << [ Prototype("x", NoGroup, 1, Vec(2, 2), SigmaUnit) EXCEPT !.phoneme = "x" ] >>
ModelAC ==
  << Prototype("E", 0, 1, Vec(0, 4), SigmaCross),
     Prototype("sc", 255, MODEL_VISEME_SIL, Vec(2, 0), SigmaUnit) >>
ImportModels == { ModelA, ModelB, ModelC, ModelN, ModelAC, <<>> }

NextImport ==
  \E model \in ImportModels, reset \in BOOLEAN :
    Import([ model |-> model, reset |-> reset ])

SpecImport == Init /\ [][NextImport]_vars

\* Predictions around live updates of silSensitivity.
SilUpdates == { <<"silSensitivity", 20>>, <<"silSensitivity", 5>> }
SilVectors == { Vec(0, 0), Vec(2, 0), Vec(4, 0) }

NextSil ==
  \/ Import([ model |-> ModelA, reset |-> FALSE ])
  \/ \E u \in SilUpdates : Update(u[1], u[2])
  \/ \E v \in SilVectors : Predict(v)

SpecSil == Init /\ [][NextSil]_vars

\* ------------------------------------------- the node's methods and the port
Post(msgs) ==
  /\ Len(toProcessor) <= MaxQueued
  /\ toProcessor' = toProcessor \o msgs

Start ==
  /\ Post(<< Msg("start") >>)
  /\ headaudio' = [ headaudio EXCEPT !.isRunning = TRUE ]
  /\ UNCHANGED << processor, vadGate, classifier, toNode, boundary, quiet, loud, edge, load, ring, ringLog, window, fetched, resampler, mfcc, gateMs, sampler >>

Stop ==
  /\ Post(<< Msg("stop") >>)
  /\ headaudio' = [ headaudio EXCEPT !.isRunning = FALSE ]
  /\ UNCHANGED << processor, vadGate, classifier, toNode, boundary, quiet, loud, edge, load, ring, ringLog, window, fetched, resampler, mfcc, gateMs, sampler >>

ResetAll ==
  /\ Post(<< Msg("reset") >>)
  /\ UNCHANGED << processor, vadGate, classifier, headaudio, toNode,
                  boundary, quiet, loud, edge, load, ring, ringLog, window, fetched, resampler, mfcc, gateMs, sampler >>

\* loadModel(url, reset) whose fetch and decoding succeed.
LoadModel(url, reset) ==
  /\ Post((IF reset THEN << Msg("reset") >> ELSE <<>>) \o << ModelMsg(ModelAt(url)) >>)
  /\ load' = IF reset
             THEN [ pending |-> Len(toProcessor) + 2, model |-> ModelAt(url) ]
             ELSE load
  /\ fetched' = [ response |-> Response(TRUE, Blob(ModelAt(url)), 0, MFCC_COEFF_N_WITH_DELTAS),
                  resolved |-> TRUE ]
  /\ UNCHANGED << processor, vadGate, classifier, headaudio, toNode,
                  boundary, quiet, loud, edge, ring, ringLog, window, resampler, mfcc, gateMs, sampler >>

\* The processor handles the oldest message of the node.
ProcessMessage ==
  /\ toProcessor # <<>>
  /\ Len(toNode) <= MaxPending
  /\ LET r == Processor_onmessage(processor, classifier, Head(toProcessor))
     IN /\ Len(r.classifier.prototypes) <= MaxPrototypes
        /\ processor' = r.processor
        /\ classifier' = r.classifier
        /\ toNode' = toNode \o r.posts
        /\ boundary' = BoundaryAfter(boundary, r.posts)
  /\ toProcessor' = Tail(toProcessor)
  /\ load' = IF load.pending > 0 THEN [ load EXCEPT !.pending = @ - 1 ]
             ELSE [ pending |-> 0, model |-> <<>> ]
  /\ UNCHANGED << vadGate, headaudio, quiet, loud, edge, ring, ringLog, window, fetched, resampler, mfcc, gateMs, sampler >>

NextNode ==
  \/ Start
  \/ Stop
  \/ ResetAll
  \/ \E url \in Urls, reset \in BOOLEAN : LoadModel(url, reset)
  \/ ProcessMessage
  \/ ProcessSample

SpecNode == Init /\ [][NextNode]_vars

\* ------------------------------------------------------- the ring buffer alone
\* Largest capacity of the ring, and the items added to it.
MaxCapacity == 3
RingItems == { 1, 2, 3 }

InitRing ==
  /\ \E capacity \in 1..MaxCapacity : InitRingWith(capacity)
  /\ window = DefaultParameterData.silCalibrationWindowSec
  /\ fetched = NotFetched
  /\ resampler = Resampler_new(AUDIO_SAMPLE_RATE)
  /\ sampler = Sampler_new([ samplesN |-> SamplesN, samplesHop |-> SamplesHop ])
  /\ mfcc = MFCC_new([ speakerMeanHz |-> 150 ])
  /\ gateMs = [ active |-> DefaultParameterData.vadGateActiveMs,
                inactive |-> DefaultParameterData.vadGateInactiveMs ]
  /\ processor = Processor_new(DefaultParameterData)
  /\ vadGate = VadGate_new(DefaultParameterData)
  /\ classifier = Classifier_new(DefaultParameterData)
  /\ headaudio = HeadAudio_new
  /\ toProcessor = <<>>
  /\ toNode = <<>>
  /\ boundary = "none"
  /\ quiet = TRUE
  /\ loud = 0
  /\ edge = 0 - 1
  /\ load = [ pending |-> 0, model |-> <<>> ]

\* The last items of a sequence, at most k of them.
LastOf(seq, k) == SubSeq(seq, Max(1, Len(seq) - k + 1), Len(seq))

\* ring.add(item)
RingAdd(item) ==
  /\ ring' = Ring_add(ring, item)
  /\ ringLog' = IF ringLog.onlyAdds
                THEN [ ringLog EXCEPT !.items = LastOf(Append(@, item), ring.capacity) ]
                ELSE ringLog
  /\ UNCHANGED << processor, vadGate, classifier, headaudio, toProcessor, toNode,
                  boundary, quiet, loud, edge, load, window, fetched, resampler, mfcc, gateMs, sampler >>

\* The state after ring.getLatest gave r.
RingGot(r) ==
  /\ ring' = r.ring
  /\ ringLog' = [ items |-> <<>>, onlyAdds |-> FALSE, ok |-> r.ok ]

\* ring.getLatest(out, hop) with out.length = n.
RingGetLatest(n, hop) ==
  /\ RingGot(Ring_getLatest(ring, n, hop))
  /\ UNCHANGED << processor, vadGate, classifier, headaudio, toProcessor, toNode,
                  boundary, quiet, loud, edge, load, window, fetched, resampler, mfcc, gateMs, sampler >>

\* ring.clear(cnt)
RingClear(cnt) ==
  /\ cnt <= ring.capacity
  /\ ring' = Ring_clear(ring, cnt)
  /\ ringLog' = [ ringLog EXCEPT !.onlyAdds = FALSE, !.items = <<>> ]
  /\ UNCHANGED << processor, vadGate, classifier, headaudio, toProcessor, toNode,
                  boundary, quiet, loud, edge, load, window, fetched, resampler, mfcc, gateMs, sampler >>

NextRing ==
  \/ \E item \in RingItems : RingAdd(item)
  \/ \E n \in 0..(MaxCapacity + 1), hop \in NoHop..(MaxCapacity + 1) : RingGetLatest(n, hop)
  \/ \E cnt \in 0..MaxCapacity : RingClear(cnt)

SpecRing == InitRing /\ [][NextRing]_vars

\* A ring constructed empty or full, and used with add, allocate, clear and
\* getLatest with a hop of 0..out.length.
InitHop ==
  /\ \E capacity \in 1..MaxCapacity, full \in BOOLEAN :
       /\ ring = RingBuffer(capacity, 0, full)
       /\ ringLog = [ items |-> <<>>, onlyAdds |-> ~full, ok |-> TRUE ]
  /\ window = DefaultParameterData.silCalibrationWindowSec
  /\ fetched = NotFetched
  /\ resampler = Resampler_new(AUDIO_SAMPLE_RATE)
  /\ sampler = Sampler_new([ samplesN |-> SamplesN, samplesHop |-> SamplesHop ])
  /\ mfcc = MFCC_new([ speakerMeanHz |-> 150 ])
  /\ gateMs = [ active |-> DefaultParameterData.vadGateActiveMs,
                inactive |-> DefaultParameterData.vadGateInactiveMs ]
  /\ processor = Processor_new(DefaultParameterData)
  /\ vadGate = VadGate_new(DefaultParameterData)
  /\ classifier = Classifier_new(DefaultParameterData)
  /\ headaudio = HeadAudio_new
  /\ toProcessor = <<>>
  /\ toNode = <<>>
  /\ boundary = "none"
  /\ quiet = TRUE
  /\ loud = 0
  /\ edge = 0 - 1
  /\ load = [ pending |-> 0, model |-> <<>> ]

\* ring.allocate()
RingAllocate ==
  /\ ring' = Ring_allocate(ring).ring
  /\ ringLog' = [ ringLog EXCEPT !.onlyAdds = FALSE, !.items = <<>> ]
  /\ UNCHANGED << processor, vadGate, classifier, headaudio, toProcessor, toNode,
                  boundary, quiet, loud, edge, load, window, fetched, resampler, mfcc, gateMs, sampler >>

NextHop ==
  \/ \E item \in RingItems : RingAdd(item)
  \/ RingAllocate
  \/ \E n \in 0..(MaxCapacity + 1) : \E hop \in 0..n : RingGetLatest(n, hop)
  \/ \E cnt \in 0..MaxCapacity : RingClear(cnt)

SpecHop == InitHop /\ [][NextHop]_vars

\* ------------------------------------------------------------ the frame stage
\* Processors of every frame size up to MaxSamplesN and every hop up to the
\* frame size, fed MaxSampleCount resampled samples; the k-th sample has the
\* value k.
MaxSamplesN == 4
MaxSampleCount == 12

InitFrame ==
  /\ InitRingWith(1)
  /\ window = DefaultParameterData.silCalibrationWindowSec
  /\ fetched = NotFetched
  /\ resampler = Resampler_new(AUDIO_SAMPLE_RATE)
  /\ \E n \in 1..MaxSamplesN : \E hop \in 1..n :
       sampler = Sampler_new([ samplesN |-> n, samplesHop |-> hop ])
  /\ mfcc = MFCC_new([ speakerMeanHz |-> 150 ])
  /\ gateMs = [ active |-> DefaultParameterData.vadGateActiveMs,
                inactive |-> DefaultParameterData.vadGateInactiveMs ]
  /\ processor = Processor_new(DefaultParameterData)
  /\ vadGate = VadGate_new(DefaultParameterData)
  /\ classifier = Classifier_new(DefaultParameterData)
  /\ headaudio = HeadAudio_new
  /\ toProcessor = <<>>
  /\ toNode = <<>>
  /\ boundary = "none"
  /\ quiet = TRUE
  /\ loud = 0
  /\ edge = 0 - 1
  /\ load = [ pending |-> 0, model |-> <<>> ]

\* process(data) for one resampled sample.
SampleIn ==
  /\ sampler.sampleCount < MaxSampleCount
  /\ sampler' = Sampler_add(sampler, sampler.sampleCount + 1)
  /\ UNCHANGED << processor, vadGate, classifier, headaudio, toProcessor, toNode,
                  boundary, quiet, loud, edge, load, window, fetched, resampler, mfcc, gateMs, ring, ringLog >>

NextFrame == SampleIn

SpecFrame == InitFrame /\ [][NextFrame]_vars

\* --------------------------------------------------------- silence calibration
\* Calibrations of a processor fed one vector per hop, with live changes of the
\* calibration window (1.0, 3.0 and 5.0 seconds).
CalMessages == { Msg("calibrate") }
CalUpdates ==
  { <<"silCalibrationWindowSec", 10>>, <<"silCalibrationWindowSec", 30>>,
    <<"silCalibrationWindowSec", 50>> }
CalDbs == { 0 - 30 }
CalVectors == { Vec(2, 0) }

NextCal ==
  \/ \E data \in CalMessages : OnMessage(data)
  \/ \E u \in CalUpdates : Update(u[1], u[2])
  \/ \E le \in CalDbs, v \in CalVectors : ProcessHop(le, v)
  \/ NodeMessage

SpecCal == Init /\ [][NextCal]_vars

\* ------------------------------------------------- collecting the vectors
\* Calibrations of a processor whose gate turns active and inactive, and whose
\* silMode is switched off and on.
ColMessages == { Msg("calibrate") }
ColUpdates == { <<"silMode", 0>>, <<"silMode", 1>> }
ColDbs == { 0 - 60, 0 - 30 }
ColVectors == { Vec(2, 0) }

NextCol ==
  \/ \E data \in ColMessages : OnMessage(data)
  \/ \E u \in ColUpdates : Update(u[1], u[2])
  \/ \E le \in ColDbs, v \in ColVectors : ProcessHop(le, v)
  \/ NodeMessage

SpecCol == Init /\ [][NextCol]_vars

\* ------------------------------------------------- the calibrated prototype
\* Calibrations in silence (the gate stays inactive), of audio whose hops give
\* one vector, except that the first hop of a calibration may give another.
\* The host calibrates again only after the calibration before has finished
\* and its prototype has reached the processor.
ProtoVectors == { Vec(2, 0), Vec(0, 0) }

Calibrate ==
  /\ ~processor.isCalibrationRunning
  /\ toProcessor = <<>>
  /\ OnMessage(Msg("calibrate"))

CalibrationHop(v) ==
  /\ v # Vec(2, 0) => processor.isCalibrationRunning /\ processor.ringCalibration.count = 0
  /\ ProcessHop(0 - 60, v)

NextProto ==
  \/ Calibrate
  \/ \E v \in ProtoVectors : CalibrationHop(v)
  \/ NodeMessage
  \/ ProcessMessage

SpecProto == Init /\ [][NextProto]_vars

\* ------------------------------------------------------- loading model files
\* A record built for 13 coefficients: 2 + 13 + 91 words.
Record13 ==
  << PhPacked("aa"), 0 >> \o [ i \in 1..13 |-> IF i = 1 THEN 4 ELSE 0 ]
                          \o [ k \in 1..91 |-> IF k \in { 1, 3, 6, 10 } THEN 1 ELSE 0 ]

\* What the host's URLs answer: a failed fetch, an empty body, a body that
\* ends inside its first record, the models A and B, model B followed by four
\* more bytes, and a model built for 13 coefficients.
Responses ==
  { Response(FALSE, <<>>, 0, MFCC_COEFF_N_WITH_DELTAS),
    Response(TRUE, <<>>, 0, MFCC_COEFF_N_WITH_DELTAS),
    Response(TRUE, SubSeq(Blob(ModelA), 1, RECORD_LEN - 1), 3, MFCC_COEFF_N_WITH_DELTAS),
    Response(TRUE, Blob(ModelA), 0, MFCC_COEFF_N_WITH_DELTAS),
    Response(TRUE, Blob(ModelB), 0, MFCC_COEFF_N_WITH_DELTAS),
    Response(TRUE, Blob(ModelB) \o << 0 >>, 0, MFCC_COEFF_N_WITH_DELTAS),
    Response(TRUE, Record13, 0, 13) }

\* loadModel(url, reset) of the node, the fetch of url giving response.
LoadModelFetched(response, reset) ==
  /\ Len(toProcessor) <= MaxQueued
  /\ LET r == Training_loadModel(response)
     IN /\ toProcessor' =
             IF r.ok
             THEN toProcessor \o (IF reset THEN << Msg("reset") >> ELSE <<>>)
                              \o << ModelMsg(r.model) >>
             ELSE toProcessor
        /\ fetched' = [ response |-> response, resolved |-> r.ok ]
  /\ UNCHANGED << processor, vadGate, classifier, headaudio, toNode,
                  boundary, quiet, loud, edge, load, ring, ringLog, window, resampler, mfcc, gateMs, sampler >>

NextLoad ==
  \/ \E response \in Responses, reset \in BOOLEAN : LoadModelFetched(response, reset)
  \/ Start
  \/ Stop
  \/ ResetAll
  \/ ProcessMessage

SpecLoad == Init /\ [][NextLoad]_vars

\* ------------------------------------------------------ resetting the processor
\* A node that loads model A and resets the processor, while the processor
\* hears speech and silence.
NextReset ==
  \/ LoadModel("a.bin", TRUE)
  \/ ResetAll
  \/ ProcessMessage
  \/ \E le \in Dbs, v \in Vectors : ProcessHop(le, v)
  \/ NodeMessage

SpecReset == Init /\ [][NextReset]_vars

\* ----------------------------------------------------------- the downsampling
\* Sample rates of the host's audio context.
SampleRates == { 8000, 12000, 16000, 22050, 44100, 48000 }

InitPhase ==
  /\ InitRingWith(1)
  /\ window = DefaultParameterData.silCalibrationWindowSec
  /\ fetched = NotFetched
  /\ \E sampleRate \in SampleRates : resampler = Resampler_new(sampleRate)
  /\ sampler = Sampler_new([ samplesN |-> SamplesN, samplesHop |-> SamplesHop ])
  /\ mfcc = MFCC_new([ speakerMeanHz |-> 150 ])
  /\ gateMs = [ active |-> DefaultParameterData.vadGateActiveMs,
                inactive |-> DefaultParameterData.vadGateInactiveMs ]
  /\ processor = Processor_new(DefaultParameterData)
  /\ vadGate = VadGate_new(DefaultParameterData)
  /\ classifier = Classifier_new(DefaultParameterData)
  /\ headaudio = HeadAudio_new
  /\ toProcessor = <<>>
  /\ toNode = <<>>
  /\ boundary = "none"
  /\ quiet = TRUE
  /\ loud = 0
  /\ edge = 0 - 1
  /\ load = [ pending |-> 0, model |-> <<>> ]

\* process(data) for one sample of the host, up to the resampled samples: the
\* accumulator grows by 1 / downsampleRatio, then the while loop runs.  A
\* processor that has thrown is not called again.
ProcessInput ==
  /\ ~resampler.thrown
  /\ resampler' = Downsample([ resampler EXCEPT
                               !.downsamplePhaseAccumulator = @ + AUDIO_SAMPLE_RATE ])
  /\ UNCHANGED << processor, vadGate, classifier, headaudio, toProcessor, toNode,
                  boundary, quiet, loud, edge, load, ring, ringLog, window, fetched, mfcc, gateMs, sampler >>

NextPhase == ProcessInput

SpecPhase == InitPhase /\ [][NextPhase]_vars

\* ------------------------------------------------------------- the animation
\* The node animating the visemes of a processor that has the four-viseme
\* model and hears speech on the prototypes of the visemes 0 and 1;
\* update(dt) is called with 50 ms.
AnimDbs == { 0 - 30 }
AnimVectors == { Vec(4, 0), Vec(0, 4) }
AnimDts == { 50 }

HeadUpdate(dt) ==
  /\ headaudio' = HeadAudio_update(headaudio, dt)
  /\ UNCHANGED << processor, vadGate, classifier, toProcessor, toNode,
                  boundary, quiet, loud, edge, load, ring, ringLog, window, fetched,
                  resampler, mfcc, gateMs, sampler >>

NextAnim ==
  \/ OnMessage(ModelMsg(VoteModel))
  \/ \E le \in AnimDbs, v \in AnimVectors : ProcessHop(le, v)
  \/ NodeMessage
  \/ \E dt \in AnimDts : HeadUpdate(dt)

SpecAnim == Init /\ [][NextAnim]_vars

\* ---------------------------------------------------------- the mel filterbank
\* An extractor constructed for one pitch and updated to others, MaxBuilds
\* times at most.
MaxBuilds == 2

InitMel ==
  /\ InitRingWith(1)
  /\ window = DefaultParameterData.silCalibrationWindowSec
  /\ fetched = NotFetched
  /\ resampler = Resampler_new(AUDIO_SAMPLE_RATE)
  /\ sampler = Sampler_new([ samplesN |-> SamplesN, samplesHop |-> SamplesHop ])
  /\ \E f0 \in SpeakerMeanHzs : mfcc = MFCC_new([ speakerMeanHz |-> f0 ])
  /\ gateMs = [ active |-> DefaultParameterData.vadGateActiveMs,
                inactive |-> DefaultParameterData.vadGateInactiveMs ]
  /\ processor = Processor_new(DefaultParameterData)
  /\ vadGate = VadGate_new(DefaultParameterData)
  /\ classifier = Classifier_new(DefaultParameterData)
  /\ headaudio = HeadAudio_new
  /\ toProcessor = <<>>
  /\ toNode = <<>>
  /\ boundary = "none"
  /\ quiet = TRUE
  /\ loud = 0
  /\ edge = 0 - 1
  /\ load = [ pending |-> 0, model |-> <<>> ]

\* update({ speakerMeanHz: value }) of the processor, which hands it to mfcc.
MfccUpdate(value) ==
  /\ Len(mfcc.speakerMeanHz) <= MaxBuilds
  /\ mfcc' = MFCC_update(mfcc, "speakerMeanHz", value)
  /\ UNCHANGED << processor, vadGate, classifier, headaudio, toProcessor, toNode,
                  boundary, quiet, loud, edge, load, ring, ringLog, window, fetched,
                  resampler, gateMs, sampler >>

NextMel == \E value \in SpeakerMeanHzs : MfccUpdate(value)

SpecMel == InitMel /\ [][NextMel]_vars

\* ------------------------------------------------------ the gate's durations
\* The gate constructed with its default durations and updated to others.
MsUpdates ==
  { <<"vadGateActiveMs", 0>>, <<"vadGateActiveMs", 10>>, <<"vadGateActiveMs", 20>>,
    <<"vadGateActiveMs", 24>>, <<"vadGateActiveMs", 40>>, <<"vadGateActiveMs", 100>>,
    <<"vadGateInactiveMs", 20>>, <<"vadGateInactiveMs", 40>> }
MsDbs == { 0 - 60, 0 - 45, 0 - 30 }

NextMs ==
  \/ \E le \in MsDbs : VadProcess(le)
  \/ \E u \in MsUpdates : VadUpdate(u[1], u[2])

SpecMs == InitVad /\ [][NextMs]_vars

\* ===================================================================== claims
\* The visemes that share the highest count in a prediction history.
MaxVote(history) ==
  CHOOSE m \in 0..history.capacity :
    /\ \E v \in 0..(MODEL_VISEMES_N - 1) : VoteCounts(history)[v] = m
    /\ \A v \in 0..(MODEL_VISEMES_N - 1) : VoteCounts(history)[v] <= m
Leaders(history) ==
  { v \in 0..(MODEL_VISEMES_N - 1) : VoteCounts(history)[v] = MaxVote(history) }

C1_TieOfThree ==
  /\ classifier.prototypesN > 0
  /\ Cardinality(Leaders(classifier.ringPredictions)) = 3

\* The messages a step adds to the port towards the node.
NewPosts == SubSeq(toNode', Len(toNode) + 1, Len(toNode'))

\* C2 (as stated): handling 'stop' while the processor is speaking posts exactly
\* one 'ended' event, the event the node dispatches to onended, and leaves the
\* processor not speaking; handling it while not speaking posts no 'started'
\* or 'ended' event.
C2_StopEndsSpeech ==
  [][ OnMessage(Msg("stop")) =>
        /\ ~processor'.isSpeaking
        /\ IF processor.isSpeaking
           THEN NewPosts = << Msg("ended") >>
           ELSE \A i \in 1..Len(NewPosts) : NewPosts[i].event \notin { "started", "ended" }
    ]_vars

\* C2 witness: 'stop' has been handled while the processor was speaking, and
\* its event waits at the node.
C2_StopWhileSpeaking ==
  /\ toNode = << Msg("end") >>
  /\ ~processor.isRunning
  /\ ~processor.isSpeaking

\* C3 (as stated): once the processor has handled the messages of a
\* loadModel(url, true), the prototype list is exactly the loaded model.
C3_LoadModelReplaces ==
  (load.pending = 0 /\ load.model # <<>>) => classifier.prototypes = load.model

\* C3 witness: loadModel("b.bin", true) has been handled by a processor that
\* held the model of a.bin, and the prototypes of a.bin are still there.
C3_LoadedOverOld ==
  /\ load.pending = 0
  /\ load.model = ModelB
  /\ classifier.prototypes = ModelA \o ModelB

\* C4 (as stated): once update has set silSensitivity to s, predict stores for
\* every silence prototype its Mahalanobis distance divided by s.
C4_PredictUsesUpdate ==
  [][ \A v \in SilVectors :
        (Predict(v) /\ classifier.prototypesN > 0 /\ processor.silSensitivity # Undefined) =>
          \A i \in 1..classifier.prototypesN :
            classifier.prototypes[i].viseme = MODEL_VISEME_SIL =>
              FracEq(classifier'.distances[i],
                     Frac(10 * distanceMahalanobis(v, classifier.prototypes[i].mu,
                                                   classifier.prototypes[i].sigmaInvLower),
                          processor.silSensitivity))
    ]_vars

\* The groups of an incoming model, and what the claimed import makes of a
\* prototype list: the prototypes of other groups in their order, then the model.
GroupsOf(model) ==
  { model[i].group : i \in { k \in 1..Len(model) : model[k].group # NoGroup } }
ReplacedByGroup(old, model) ==
  SelectSeq(old, LAMBDA x : x.group \notin GroupsOf(model)) \o model

\* C5 (as stated): every import removes exactly the existing prototypes of an
\* incoming group, keeps the others in their order and appends the model.
C5_ImportByGroup ==
  [][ \A m \in ImportModels, r \in BOOLEAN :
        Import([ model |-> m, reset |-> r ]) =>
          /\ classifier'.prototypes = ReplacedByGroup(classifier.prototypes, m)
          /\ classifier'.prototypesN = Len(classifier'.prototypes)
    ]_vars

\* C5 (amended): an import WITHOUT the reset flag removes exactly the existing
\* prototypes of an incoming group, keeps the others in their order and appends
\* the model; an import with the reset flag leaves exactly the model.
C5_ImportByGroupUnlessReset ==
  [][ \A m \in ImportModels, r \in BOOLEAN :
        Import([ model |-> m, reset |-> r ]) =>
          /\ classifier'.prototypes =
               IF r THEN m ELSE ReplacedByGroup(classifier.prototypes, m)
          /\ classifier'.prototypesN = Len(classifier'.prototypes)
    ]_vars

\* C5 witness: the calibrated silence prototype of group 255 has been imported
\* over the model of a.bin, whose prototypes of group 0 are all still there.
C5_OtherGroupKept ==
  classifier.prototypes = ModelA \o ModelC

\* 'started' and 'ended' alternate through posts when b was the last of them.
RECURSIVE Alternates(_, _)
Alternates(b, posts) ==
  IF posts = <<>> THEN TRUE
  ELSE /\ Head(posts).event = "started" => b # "started"
       /\ Head(posts).event = "ended" => b = "started"
       /\ Alternates(IF Head(posts).event \in { "started", "ended" }
                     THEN Head(posts).event ELSE b,
                     Tail(posts))

\* C6 (as stated): the processor posts 'started' only when the last of the
\* 'started' / 'ended' events it posted was not 'started', and 'ended' only
\* when it was 'started'.
C6_StartedEndedAlternate ==
  [][ Alternates(boundary, NewPosts) ]_vars

\* C7: a hop that takes the enabled gate from active to inactive while the
\* processor is speaking posts exactly one 'ended', and the inactive hops that
\* follow post none (edge counts the 'ended' events from that hop on).
C7_OneEndedPerEdge ==
  edge >= 0 => edge = 1

\* C7 witness: the gate went inactive under a speaking processor and has been
\* through a further inactive hop.
C7_EdgeThenInactiveHop ==
  /\ edge = 1
  /\ vadGate.inactive >= 2
  /\ classifier.prototypesN > 0

\* C8: while the gate has run on every hop and no hop was above the active
\* threshold, no 'started' and no 'ended' has been posted, no 'viseme' event
\* has been posted or has reached the node, and the processor is not speaking.
C8_QuietNeverSpeaks ==
  quiet =>
    /\ ~processor.isSpeaking
    /\ boundary = "none"
    /\ \A i \in 1..Len(toNode) : toNode[i].event \notin { "started", "ended", "viseme" }
    /\ headaudio.visemeActive = 0 - 1

\* C8 witness: a running processor with a model loaded whose gate has seen
\* hops, none of them above the active threshold.
C8_QuietHopsWithModel ==
  /\ quiet
  /\ classifier.prototypesN > 0
  /\ processor.isRunning
  /\ vadGate.inactive >= 2
  /\ processor.ringSamples.count = SamplesN - SamplesHop

\* C9: with activeFrames = n whole hops (n >= 1), after fewer than n hops above
\* the active threshold in a row, counted from preActive = 0, the gate is
\* inactive; after the n-th it is active.
C9_ActiveOnNthHop ==
  (vadGate.activeFrames % FrameScale = 0 /\ vadGate.activeFrames >= FrameScale /\ loud >= 1) =>
    IF FrameScale * loud < vadGate.activeFrames
    THEN vadGate.active = 0 /\ vadGate.inactive # 0
    ELSE /\ FrameScale * loud = vadGate.activeFrames
         /\ vadGate.active # 0
         /\ vadGate.inactive = 0

\* C9 witness: a gate of activeFrames = 3 that has just turned active on the
\* third hop above the threshold, and one still inactive after the second.
C9_ThirdHopActive ==
  /\ vadGate.activeFrames = 3 * FrameScale
  /\ loud = 3
  /\ vadGate.active = 1
C9_SecondHopInactive ==
  /\ vadGate.activeFrames = 3 * FrameScale
  /\ loud = 2
  /\ vadGate.active = 0

\* The i-th newest entry of a full ring (i = 1 is the newest).
Newest(r, i) == r.buf[((r.tail + r.capacity - i) % r.capacity) + 1]
\* The k newest entries of the prediction history are x and the others are y.
RunOf(r, x, y, k) ==
  \A i \in 1..r.capacity : Newest(r, i) = IF i <= k THEN x ELSE y

\* C10 (as stated): from a history of six y, the majority vote is still y after
\* one and after two raw predictions of x, and is x after the third, for every
\* x # y.
C10_ThirdConsecutive ==
  \A x \in 0..(MODEL_VISEMES_N - 1), y \in 0..(MODEL_VISEMES_N - 1), k \in 1..3 :
    (x # y /\ RunOf(classifier.ringPredictions, x, y, k)) =>
      classifier.predictionLast = IF k = 3 THEN x ELSE y

\* C10 witness: three raw predictions of x after six of a higher y, with the
\* majority vote still y.
C10_ThirdOfLowerLoses ==
  \E x \in 0..(MODEL_VISEMES_N - 1), y \in 0..(MODEL_VISEMES_N - 1) :
    /\ x < y
    /\ classifier.prototypesN > 0
    /\ RunOf(classifier.ringPredictions, x, y, 3)
    /\ classifier.predictionLast = y

\* C11: when the newest entry of the prediction history differs from x and the
\* five other entries hold x, the majority vote of that hop is x.
C11_OutlierSuppressed ==
  \A x \in 0..(MODEL_VISEMES_N - 1) :
    (VoteCounts(classifier.ringPredictions)[x] = RingPredictionsN - 1
       /\ Newest(classifier.ringPredictions, 1) # x) =>
      classifier.predictionLast = x

\* C11 witness: predict has put a single raw prediction of another viseme on
\* top of five of a speech viseme.
C11_OneOutlier ==
  \E x \in 0..(MODEL_VISEMES_N - 2) :
    /\ classifier.prototypesN > 0
    /\ VoteCounts(classifier.ringPredictions)[x] = RingPredictionsN - 1
    /\ Newest(classifier.ringPredictions, 1) # x

\* The majority vote over a prediction history: the highest of the visemes
\* that no other viseme outnumbers.
HighestLeader(counts) ==
  CHOOSE v \in 0..(MODEL_VISEMES_N - 1) :
    \A w \in 0..(MODEL_VISEMES_N - 1) :
      counts[w] <= counts[v] /\ (counts[w] = counts[v] => w <= v)
VoteOf(history) == HighestLeader(VoteCounts(history))

\* What C12 says of a predict that returned viseme and left the last
\* prediction at lastAfter, when the vote was vote and the last prediction last.
NullOnlyForRepeatedSilence(vote, last, viseme, lastAfter) ==
  IF vote = last /\ vote = MODEL_VISEME_SIL
  THEN viseme = Null /\ lastAfter = last
  ELSE viseme = vote /\ lastAfter = vote

\* C12: with a non-empty model, predict returns null exactly when the majority
\* vote equals the last prediction and both are silence, and then leaves the
\* last prediction alone; otherwise it returns the vote and records it as the
\* last prediction.
C12_NullOnlyForRepeatedSilence ==
  [][ \A v \in VoteVectors :
        (Predict(v) /\ classifier.prototypesN > 0) =>
          NullOnlyForRepeatedSilence(VoteOf(classifier'.ringPredictions),
                                     classifier.predictionLast,
                                     Classifier_predict(classifier, v).viseme,
                                     classifier'.predictionLast)
    ]_vars

\* C12 witness: predict has returned a speech viseme whose six raw predictions
\* fill the history: every further prediction of it repeats the last one.
C12_RepeatedSpeech ==
  /\ classifier.prototypesN > 0
  /\ classifier.predictionLast = 0
  /\ RunOf(classifier.ringPredictions, 0, 0, RingPredictionsN)

\* C13: on a ring that has seen only add calls, getLatest(out) with
\* out.length = n <= count gives the n items added last, oldest first.
C13_LatestInInsertionOrder ==
  ringLog.onlyAdds =>
    \A n \in 0..ring.count :
      /\ Ring_getLatest(ring, n, NoHop).ok
      /\ Ring_getLatest(ring, n, NoHop).out = LastOf(ringLog.items, n)

\* C13 witness: a ring of capacity 3 after more than 3 adds, the last three
\* being 1, 2, 3: the first item added has been overwritten.
C13_WrappedRing ==
  /\ ringLog.onlyAdds
  /\ ring.capacity = 3
  /\ ring.count = 3
  /\ ring.head # 0
  /\ ringLog.items = << 1, 2, 3 >>

\* C14: getLatest(out, hop) with out.length above count returns null and
\* leaves buf, head, tail and count as they were, for every hop.
C14_TooLongLeavesRing ==
  [][ \A n \in 0..(MaxCapacity + 1), hop \in NoHop..(MaxCapacity + 1) :
        (RingGetLatest(n, hop) /\ n > ring.count) =>
          /\ ~ringLog'.ok
          /\ ring' = ring
    ]_vars

\* C14 witness: getLatest has returned null on a ring that holds items and
\* whose head is not at slot 0.
C14_NullOnPartRing ==
  /\ ~ringLog.ok
  /\ ring.count > 0
  /\ ring.head # 0

\* C15 (as stated): a 'calibrated' event carries the hop vectors of
\* silCalibrationWindowSec seconds, sec * 16000 / 256 of them (to within one).
C15_WindowSpansSeconds ==
  \A i \in 1..Len(toNode) :
    toNode[i].event = "calibrated" =>
      /\ 10 * MFCC_SAMPLES_HOP * (Len(toNode[i].vs) - 1) < window * AUDIO_SAMPLE_RATE
      /\ window * AUDIO_SAMPLE_RATE < 10 * MFCC_SAMPLES_HOP * (Len(toNode[i].vs) + 1)

\* C15 witness: a calibration with the window set to 5.0 seconds has finished.
C15_CalibratedAfterFiveSeconds ==
  /\ window = 50
  /\ toNode # <<>>
  /\ toNode[1].event = "calibrated"
  /\ ~processor.isCalibrationRunning

\* C16: when the node handles a 'calibrated' message whose vectors make
\* computePrototype fail, it posts nothing to the processor, the prototypes of
\* the classifier stay as they are, and oncalibrated gets the data with an
\* error field.
C16_FailedCalibrationPostsNothing ==
  [][ ( /\ toNode # <<>>
        /\ toNode' = Tail(toNode)
        /\ Head(toNode).event = "calibrated"
        /\ \/ Len(Head(toNode).vs) < MFCC_COEFF_N_WITH_DELTAS
           \/ \A k \in 1..Len(Head(toNode).vs) : Head(toNode).vs[k] = Head(toNode).vs[1] )
      => ( /\ toProcessor' = toProcessor
           /\ classifier'.prototypes = classifier.prototypes
           /\ headaudio'.oncalibrated = "data with error" ) ]_vars

\* C16 witness: a calibration has failed after an earlier one gave the
\* classifier its calibrated silence prototype.
C16_FailedAfterCalibrated ==
  /\ headaudio.oncalibrated = "data with error"
  /\ classifier.prototypes # <<>>
  /\ toProcessor = <<>>

\* C17: a loadModel call whose fetch is not ok, or whose body holds no whole
\* record, posts nothing to the processor and leaves the classifier and the
\* processor (its rings) as they are.
C17_FailedLoadPostsNothing ==
  [][ ( /\ fetched' # fetched
        /\ \/ ~fetched'.response.ok
           \/ ByteLength(fetched'.response) < RECORD_OFFSET )
      => ( /\ ~fetched'.resolved
           /\ toProcessor' = toProcessor
           /\ classifier' = classifier
           /\ processor' = processor ) ]_vars

\* C17 witness: a load has failed on a body without a whole record while the
\* classifier holds the prototypes of an earlier load.
C17_FailedLoadOverModel ==
  /\ fetched.response.ok
  /\ ByteLength(fetched.response) < RECORD_OFFSET
  /\ ~fetched.resolved
  /\ classifier.prototypes # <<>>

\* C18 (as stated): a load resolves only for a body built for the engine's
\* feature dimension and made of whole records.
C18_MismatchedBlobRejected ==
  fetched.resolved =>
    /\ fetched.response.d = MFCC_COEFF_N_WITH_DELTAS
    /\ ByteLength(fetched.response) % RECORD_OFFSET = 0

\* C18 witness: the prototypes of the classifier come from a body built for
\* another dimension.
C18_MismatchedBlobImported ==
  /\ fetched.resolved
  /\ fetched.response.d # MFCC_COEFF_N_WITH_DELTAS
  /\ toProcessor = <<>>
  /\ classifier.prototypes # <<>>

\* C19 (as stated): when the processor has handled a 'reset' message, the
\* counters of the gate, the prediction history and the last emitted viseme
\* are as the constructors leave them.
C19_ResetRestoresGateAndHistory ==
  [][ ( /\ toProcessor # <<>>
        /\ Head(toProcessor).event = "reset"
        /\ toProcessor' = Tail(toProcessor) )
      => ( /\ vadGate'.active = 0
           /\ vadGate'.inactive = 1
           /\ vadGate'.preActive = 0
           /\ vadGate'.preInactive = 0
           /\ classifier'.ringPredictions.buf =
                [ i \in 1..RingPredictionsN |-> MODEL_VISEME_SIL ]
           /\ classifier'.predictionLast = MODEL_VISEME_SIL ) ]_vars

\* C19 witness: a 'reset' message is next at a processor whose gate is active
\* and whose classifier last emitted a speech viseme.
C19_ResetWhileSpeaking ==
  /\ toProcessor # <<>>
  /\ Head(toProcessor).event = "reset"
  /\ vadGate.active # 0
  /\ classifier.predictionLast # MODEL_VISEME_SIL

\* C20 (as stated): whatever the sample rate of the host, every phase index
\* computed in process is one of 0..AUDIO_DOWNSAMPLE_PHASE_N-1 and process
\* does not throw.
C20_PhaseIndexInTable ==
  /\ resampler.phaseIndex # NoPhase =>
       resampler.phaseIndex \in 0..(AUDIO_DOWNSAMPLE_PHASE_N - 1)
  /\ ~resampler.thrown

\* C20 witness: process has thrown on a phase index beyond the table.
C20_PhaseIndexBeyondTable ==
  /\ resampler.thrown
  /\ resampler.phaseIndex >= AUDIO_DOWNSAMPLE_PHASE_N

\* C21 (as stated): when the node handles a 'viseme' event carrying a viseme
\* v of 0..13, v becomes the active viseme.
C21_VisemeBecomesActive ==
  [][ ( /\ toNode # <<>>
        /\ toNode' = Tail(toNode)
        /\ Head(toNode).event = "viseme"
        /\ Head(toNode).viseme \in 0..(MODEL_VISEME_SIL - 1) )
      => headaudio'.visemeActive = Head(toNode).viseme ]_vars

\* C21 witness: the last 'viseme' event carried viseme 0, and the update(dt)
\* after it has called onvalue, but not for 'viseme_aa'.
C21_VisemeZeroNotAnimated ==
  /\ headaudio.onviseme = 0
  /\ headaudio.visemeActive # 0
  /\ headaudio.onvalue # {}
  /\ "viseme_aa" \notin headaudio.onvalue

\* C22 (as stated): the mel filterbank of the extractor is that of an
\* extractor freshly constructed with the pitch last given.
C22_FilterbankAsFresh ==
  melFilters(mfcc) =
    melFilters(MFCC_new([ speakerMeanHz |-> mfcc.speakerMeanHz[Len(mfcc.speakerMeanHz)] ]))

\* C22 witness: after updates the filterbank for 90 Hz holds a weight above 0
\* on a bin beyond the last mel point of 90 Hz (bin 79).
C22_StaleWeights ==
  /\ mfcc.speakerMeanHz[Len(mfcc.speakerMeanHz)] = 90
  /\ \E i \in 0..(MFCC_MEL_BANDS_N - 1), k \in 79..(MFCC_SAMPLES_N \div 2 - 1) :
       melFilters(mfcc)[i][k].n > 0

\* C23 (as stated): a gate whose vadGateActiveMs was last configured as m
\* turns active on hop max(1, round(m * 62.5 / 1000)) above the active
\* threshold in a row, counted from preActive = 0, and on no earlier one.
C23_HopsAsConstructed ==
  loud >= 1 =>
    IF loud < Max(1, Round(gateMs.active, FrameScale))
    THEN vadGate.active = 0
    ELSE /\ loud = Max(1, Round(gateMs.active, FrameScale))
         /\ vadGate.active # 0

\* C23 witness: a gate updated to 20 ms (1.25 hops, which rounds to 1) is
\* still inactive after the first hop above the threshold.
C23_UpdatedGateNeedsTwo ==
  /\ gateMs.active = 20
  /\ loud = 1
  /\ vadGate.active = 0

\* C24: in VadGate.process a hop that does not qualify (not below the inactive
\* threshold while the gate is active, not above the active threshold while it
\* is inactive) lowers the corresponding debounce counter by exactly one, never
\* below zero, and leaves the gate's activity as it was.
C24_DebounceDecays ==
  [][ \A le \in VadDbs :
        VadProcess(le) =>
          /\ (vadGate.active # 0 /\ ~(le < vadGate.inactiveLE)) =>
               /\ vadGate'.preInactive = Max(0, vadGate.preInactive - 1)
               /\ vadGate'.active # 0
          /\ (vadGate.active = 0 /\ ~(le > vadGate.activeLE)) =>
               /\ vadGate'.preActive = Max(0, vadGate.preActive - 1)
               /\ vadGate'.active = 0 ]_vars

\* C24 witness: a gate never updated (48 ms is no value of an update) that
\* needs three loud hops has seen two and then one that is not loud, which
\* left preActive at one.
C24_DecayedToOne ==
  /\ gateMs = [ active |-> 48, inactive |-> 48 ]
  /\ vadGate.active = 0
  /\ vadGate.preActive = 1
  /\ loud = 0

\* C25: getLatest(out) with the hop omitted and out.length at most count only
\* copies: head, tail and count of the ring stay as they were.
C25_NoHopOnlyCopies ==
  [][ \A n \in 0..MaxCapacity :
        (n <= ring.count /\ RingGetLatest(n, NoHop)) =>
          /\ ring'.head = ring.head
          /\ ring'.tail = ring.tail
          /\ ring'.count = ring.count ]_vars

\* C25 witness: a full ring whose head is no longer at its tail; head was
\* moved by a getLatest that copied fewer items than count and applied no hop.
C25_HeadMovedOnFullRing ==
  /\ ring.count = ring.capacity
  /\ ring.head # ring.tail
  /\ ringLog.ok
  /\ ~ringLog.onlyAdds

\* C30: after any sequence of add, allocate, getLatest with a hop of
\* 0..out.length and clear(cnt) with 0 <= cnt <= capacity, on a ring
\* constructed empty or full, count is within 0..capacity and tail is
\* (head + count) mod capacity.
C30_CountAndTail ==
  /\ ring.count >= 0
  /\ ring.count <= ring.capacity
  /\ ring.tail = (ring.head + ring.count) % ring.capacity

\* C30 witness: a ring of capacity 3, used with more than add, that holds two
\* items across the end of its array.
C30_WrappedAfterHop ==
  /\ ring.capacity = 3
  /\ ~ringLog.onlyAdds
  /\ ring.head = 2
  /\ ring.count = 2
  /\ ring.tail = 1

\* The places in the queue after of the messages posted since it was before
\* that are 'viseme' events.
NewVisemes(before, after) ==
  { i \in (Len(before) + 1)..Len(after) : after[i].event = "viseme" }

C29_VisemeOnlyWhileSpeaking ==
  [][ NewVisemes(toNode, toNode') # {} =>
        /\ \E le \in Dbs, v \in Vectors : ProcessHop(le, v)
        /\ Cardinality(NewVisemes(toNode, toNode')) = 1
        /\ processor'.isSpeaking
        /\ \A i \in NewVisemes(toNode, toNode') :
             toNode'[i].viseme # MODEL_VISEME_SIL ]_vars

\* C29 witness: a hop of a processor that was speaking already has posted a
\* speech viseme and nothing else.
C29_VisemeWhileSpeaking ==
  /\ processor.isSpeaking
  /\ Len(toNode) = 1
  /\ toNode[1].event = "viseme"
  /\ toNode[1].viseme \notin { Null, MODEL_VISEME_SIL }

\* The places in the queue after of the messages posted since it was before
\* that are 'calibrated' events.
NewCalibrated(before, after) ==
  { i \in (Len(before) + 1)..Len(after) : after[i].event = "calibrated" }

\* C28: after 'calibrate', while silMode is 1 and the window is not changed,
\* every hop adds its vector to the calibration ring whatever the gate says;
\* the hop that fills the ring posts exactly one 'calibrated' holding the ring
\* and ends the calibration, a hop that does not fill it posts none, and a hop
\* outside a calibration leaves the ring alone and posts none.
C28_EveryHopCollected ==
  [][ \A le \in ColDbs, v \in ColVectors :
        ProcessHop(le, v) =>
          IF processor.isCalibrationRunning /\ processor.silMode = 1
          THEN /\ processor'.ringCalibration = Ring_add(processor.ringCalibration, v)
               /\ processor'.ringCalibration.count = processor.ringCalibration.count + 1
               /\ IF Ring_isFull(processor'.ringCalibration)
                  THEN /\ Cardinality(NewCalibrated(toNode, toNode')) = 1
                       /\ \A i \in NewCalibrated(toNode, toNode') :
                            toNode'[i].vs = processor'.ringCalibration.buf
                       /\ ~processor'.isCalibrationRunning
                  ELSE /\ NewCalibrated(toNode, toNode') = {}
                       /\ processor'.isCalibrationRunning
          ELSE /\ processor'.ringCalibration = processor.ringCalibration
               /\ processor'.isCalibrationRunning = processor.isCalibrationRunning
               /\ NewCalibrated(toNode, toNode') = {} ]_vars

\* C28 witness: a calibration has ended on a hop on which the gate was active;
\* its 'calibrated' event waits for the node.
C28_CalibratedWhileActive ==
  /\ ~processor.isCalibrationRunning
  /\ Ring_isFull(processor.ringCalibration)
  /\ vadGate.active # 0
  /\ \E i \in 1..Len(toNode) : toNode[i].event = "calibrated"

\* C27: while the processor runs from construction, a frame is computed
\* exactly when the ring of resampled samples becomes full: the first after
\* samplesN samples, then one every samplesHop samples; the frame holds the
\* newest samplesN samples in their order (so two frames in a row share
\* samplesN - samplesHop samples).
C27_FrameWhenRingFull ==
  sampler.sampleCount >= 1 =>
    /\ sampler.framed <=>
         /\ sampler.sampleCount >= sampler.samplesN
         /\ (sampler.sampleCount - sampler.samplesN) % sampler.samplesHop = 0
    /\ sampler.framed =>
         sampler.block =
           [ i \in 1..sampler.samplesN |-> sampler.sampleCount - sampler.samplesN + i ]

\* C27 witness: the third frame of a processor with frames of 3 samples and a
\* hop of 2: the samples 5, 6, 7, of which 5 was in the frame before.
C27_ThirdFrameOverlaps ==
  /\ sampler.samplesN = 3
  /\ sampler.samplesHop = 2
  /\ sampler.sampleCount = 7
  /\ sampler.framed
  /\ sampler.block = << 5, 6, 7 >>

====
